---- MODULE Spec2Model ----
(***************************************************************************)
(* A model of cin-dl (src/cin-dl.js): the download orchestrator of main,   *)
(* the per-identifier pipeline processMovie, the atomic stream download    *)
(* streamDownloadAtomic and the series discovery cascade                   *)
(* expandSeriesToEpisodeIds.                                               *)
(*                                                                         *)
(* Granularity: JavaScript runs one handler at a time, so one action is    *)
(* the code between two suspension points (await of a request, of a        *)
(* stream, of a timer, of a subprocess).  Work queued on the microtask     *)
(* queue (p-limit starting the next job) runs before any further event     *)
(* (signal, response, timer) is handled.                                   *)
(***************************************************************************)
EXTENDS Integers, Sequences, FiniteSets, TLC

VARIABLES
    cfg,              \* argv / ENV of the run
    ids,              \* main: the deduplicated identifier list
    queue,            \* p-limit: identifiers whose job body has not started
    activeCount,      \* p-limit: job bodies started and not finished
    job,              \* per identifier: position in processMovie and retry state
    results,          \* main: the results array
    cancelRequested,  \* main: set by the SIGINT guard's cancel callback
    stopping,         \* installSigintGuard: a SIGINT has been handled
    sigints,          \* SIGINT signals delivered to the process so far
    proc,             \* "main" | "running" | "exited" | "aborted" | "crashed" | "killed"
    exitCode,         \* process.exitCode
    inflightAtSig,    \* history: jobs inside their body at the first SIGINT
    queuedAtSig,      \* history: jobs still queued at the first SIGINT
    faults,           \* environment: request/stream/tool failures injected so far
    dlOpts,           \* streamDownloadAtomic: { skipExisting, overwrite }, RETRY_COUNT
    procs,            \* the downloads running against one final path
    dir,              \* file system: path ("final", "tmp") -> inode, 0 when absent
    inodes,           \* file system: inode -> content, a sequence of chunks
    dl,               \* per download: position in streamDownloadAtomic, its fd
    dcfg,             \* discovery: SERIES_EP_ENDPOINT, SERIES_EP_SEASON_PARAM, --no-cache
    cacheFile,        \* .cin-dl-cache.json as it is on disk
    disc,             \* the call of expandSeriesToEpisodeIds in progress
    ret,              \* history: what the last completed call returned
    call,             \* a helper function applied to arguments: its name, the arguments
    result,           \* what the helper returned
    pm                \* processMovie of one identifier on a file system, with its retries

orchVars == <<cfg, ids, queue, activeCount, job, results, cancelRequested,
              stopping, sigints, proc, exitCode, inflightAtSig, queuedAtSig,
              faults>>

fileVars == <<dlOpts, procs, dir, inodes, dl>>

discVars == <<dcfg, cacheFile, disc, ret>>

fnVars == <<call, result>>

pmVars == <<pm>>

vars == <<orchVars, fileVars, discVars, fnVars, pmVars>>

----------------------------------------------------------------------------
(* Bounds of the model *)

MaxIds == 2            \* identifiers submitted to one run
MaxConcurrency == 2    \* largest --concurrency tried
MaxRetryCount == 1     \* largest RETRY_COUNT tried
MaxSubs == 1           \* subtitle tracks surviving the filter, per identifier
MaxFaults == 3         \* failures the environment injects during one run
MaxChunks == 2         \* chunks of one stream
MaxLate == 1           \* write streams failed attempts of one job have left behind, at a time
MaxRows == 2           \* rows in one answer of the catalog
MaxQualities == 3      \* entries in one list of transcoded files

(* Program constants *)

JobRetries == 2        \* pRetry(() => processMovie(id, cfg), { retries: 2 })

----------------------------------------------------------------------------
(* Small helpers *)

Range(s) == { s[i] : i \in 1..Len(s) }

SeqOfN(n) == [ i \in 1..n |-> i ]

InBodyPcs == {"info", "qualities", "video", "subsList", "sub", "burn", "mux", "backoff"}

InBody(j) == job[j].pc \in InBodyPcs

ResultsOf(j) == { i \in 1..Len(results) : results[i].id = j }

(* tracks: the subtitle tracks that survived the filter in the attempt in
   progress; vDone: the video download of that attempt has resolved; late:
   "cut" once an interrupt was seen to arrive while the job was in its body
   (SigintSeen), "retried" once a failure of the job was answered by a retry
   after that. *)
NewJob == [pc |-> "queued", attempt |-> 0, sAttempt |-> 0, subsLeft |-> 0,
           subPaths |-> 0, failed |-> 0, tracks |-> 0, vDone |-> FALSE,
           late |-> "no"]

(* a retry is granted to the job record r *)
Retried(l) == IF l = "no" THEN "no" ELSE "retried"

----------------------------------------------------------------------------
(* Configuration: argv and ENV as main reads them *)

Configs ==
    [ concurrency : 1..MaxConcurrency,
      retryCount  : 0..MaxRetryCount,
      dryRun      : BOOLEAN,
      burnSubs    : BOOLEAN,
      muxSubs     : BOOLEAN ]

(* The configurations the pool is checked under: every pool size, the
   largest stream retry count, and three modes: dry-run, plain download,
   download with both post-processing steps. *)
PoolConfigs ==
    { c \in Configs : /\ c.retryCount = MaxRetryCount
                      /\ c.burnSubs = c.muxSubs
                      /\ c.dryRun => ~c.burnSubs }

(* Series discovery: the catalog and the cache file

   The catalog is the environment.  Each of its items has one kind, season,
   episode number and root series; a row of an answer is an item of the
   catalog, and an answer lists any rows in any order, with repetitions. *)

Catalog ==
    << [nb |-> 11, kind |-> "2", season |-> 2, episodeNummer |-> 1, rootSeries |-> 1],
       [nb |-> 12, kind |-> "2", season |-> 1, episodeNummer |-> 1, rootSeries |-> 1],
       [nb |-> 21, kind |-> "2", season |-> 1, episodeNummer |-> 2, rootSeries |-> 2] >>

Items == Range(Catalog)

Roots == { c.rootSeries : c \in { i \in Items : i.kind = "2" } }

ItemOf(id) == CHOOSE c \in Items : c.nb = id

(* cache.series of a cache without entries: { series: {} } *)
NoSeries == [ r \in Roots |-> [has |-> FALSE, episodes |-> <<>>] ]

NoCacheFile == [present |-> FALSE, series |-> NoSeries]

IdleDisc ==
    [pc |-> "idle", seriesIds |-> <<>>, seasonFilters |-> <<>>,
     cache |-> NoSeries, out |-> <<>>, ri |-> 0, episodes |-> <<>>,
     bLeft |-> 0, pair |-> 0, found |-> <<>>, reqs |-> 0, lists |-> <<>>,
     repeat |-> FALSE, prevResult |-> <<>>,
     tried |-> <<>>, failed |-> FALSE, seen |-> {}, parsed |-> "mapping"]

(* repeat: the call before this one was given the same roots, with the cache
   in use, and its write of the cache file was done; prevResult is then
   what that call returned.  saved: the
   write of the cache file by this call was done ("written"), "failed", or
   not tried ("no").  dup: the list collected held an identifier more than
   once. *)
NoRet ==
    [seriesIds |-> <<>>, seasonFilters |-> <<>>, result |-> <<>>,
     repeat |-> FALSE, prevResult |-> <<>>,
     dup |-> FALSE, reqs |-> 0, lists |-> <<>>, threw |-> FALSE,
     saved |-> "no"]

(* No discovery is modelled. *)
DiscIdle ==
    /\ dcfg = [endpoint |-> FALSE, seasonParam |-> FALSE, noCache |-> FALSE]
    /\ cacheFile = NoCacheFile
    /\ disc = IdleDisc
    /\ ret = NoRet

(* No pipeline is modelled at the level of the file system. *)
NoPm == [pc |-> "none"]

PmIdle == pm = NoPm

(* No helper function has been applied. *)
NoCall == [fn |-> "none"]

FnIdle ==
    /\ call = NoCall
    /\ result = 0

(* No download is modelled at the level of the file system. *)
FileIdle ==
    /\ dlOpts = [skipExisting |-> TRUE, overwrite |-> FALSE, retryCount |-> 0]
    /\ procs = {}
    /\ dir = [final |-> 0, tmp |-> 0]
    /\ inodes = <<>>
    /\ dl = <<>>

(* main, after the identifiers are resolved and deduplicated (there may be
   none): ids = uniqStrings(ids). *)
Init ==
    /\ cfg \in PoolConfigs
    /\ \E n \in 0..MaxIds : ids = SeqOfN(n)
    /\ queue = ids
    /\ activeCount = 0
    /\ job = [ j \in Range(ids) |-> NewJob ]
    /\ results = <<>>
    /\ cancelRequested = FALSE
    /\ stopping = FALSE
    /\ sigints = 0
    /\ proc = "main"
    /\ exitCode = 0
    /\ inflightAtSig = {}
    /\ queuedAtSig = {}
    /\ faults = 0
    /\ FileIdle
    /\ DiscIdle
    /\ FnIdle
    /\ PmIdle

(* mutant: main goes on without identifiers *)
NoIdsNever(list) == FALSE

(* ids.length === 0 *)
NoIds(list) == Len(list) = 0

(* main from the test of the identifiers on: without identifiers the usage
   line is printed and process.exit(1) ends the process at once; else the
   pool is created, the SIGINT guard installed and every identifier's job
   handed to limit(). *)
StartPool ==
    /\ proc = "main"
    /\ IF NoIds(ids)
       THEN proc' = "aborted" /\ exitCode' = 1
       ELSE proc' = "running" /\ exitCode' = exitCode
    /\ UNCHANGED <<cfg, ids, queue, activeCount, job, results, cancelRequested,
                   stopping, sigints, inflightAtSig, queuedAtSig, faults,
                   fileVars, discVars, fnVars, pmVars>>

----------------------------------------------------------------------------
(* p-limit: a queued job body starts when a slot is free *)

(* mutant: the pool admits a job while it is already full *)
SlotFreeOffByOne == activeCount <= cfg.concurrency

SlotFree == activeCount < cfg.concurrency

StartEnabled == proc = "running" /\ queue # <<>> /\ SlotFree

(* An event (response, timer, signal, subprocess exit) is handled only once
   the microtask queue is empty, i.e. when no job start is pending. *)
EventReady == proc = "running" /\ ~StartEnabled

(* The job body of main: `if (cancelRequested) return;` else the first
   attempt of processMovie starts (up to its first await). *)
BodyStart(j) ==
    IF cancelRequested
    THEN /\ job' = [job EXCEPT ![j].pc = "skipped"]
         /\ activeCount' = activeCount
    ELSE /\ job' = [job EXCEPT ![j].pc = "info", ![j].attempt = 1]
         /\ activeCount' = activeCount + 1

(* mutant: the pool takes the job that was submitted last *)
DequeueLast(q) == [item |-> q[Len(q)], rest |-> SubSeq(q, 1, Len(q) - 1)]

(* The pool's queue is first in, first out: ids.map hands the job bodies to
   limit() in the order of ids, and a free slot takes the oldest of them. *)
Dequeue(q) == [item |-> Head(q), rest |-> Tail(q)]

StartJob ==
    /\ StartEnabled
    /\ LET d == Dequeue(queue) IN
         /\ queue' = d.rest
         /\ BodyStart(d.item)
    /\ UNCHANGED <<cfg, ids, results, cancelRequested, stopping, sigints,
                   proc, exitCode, inflightAtSig, queuedAtSig, faults, fileVars, discVars, fnVars, pmVars>>

----------------------------------------------------------------------------
(* processMovie and the retry wrappers around it *)

(* The environment: a failure (request error, stream error, tool launch
   error) is injected while the run's budget lasts. *)
Fault == faults < MaxFaults /\ faults' = faults + 1

NoFault == faults' = faults

(* A job record once its body has returned, or between two attempts: the
   locals of the attempt of processMovie that ended are gone. *)
Ended(r, f) == [r EXCEPT !.pc = "done", !.sAttempt = 0, !.subsLeft = 0,
                         !.subPaths = 0, !.failed = f, !.tracks = 0,
                         !.vDone = FALSE]

(* The job body ends: the result is pushed and the slot is freed. *)
Finish(j, st) ==
    /\ results' = Append(results, [id |-> j, status |-> st])
    /\ job' = [job EXCEPT ![j] = Ended(job[j], job[j].failed)]
    /\ activeCount' = activeCount - 1

(* mutant: the job body's catch logs the error and records nothing *)
ThrowUnrecorded(j) ==
    IF job[j].attempt <= JobRetries
    THEN /\ job' = [job EXCEPT ![j] = [Ended(job[j], job[j].failed + 1)
                                          EXCEPT !.pc = "backoff"]]
         /\ UNCHANGED <<results, activeCount>>
    ELSE /\ results' = results
         /\ job' = [job EXCEPT ![j] = Ended(job[j], job[j].failed + 1)]
         /\ activeCount' = activeCount - 1

(* mutant: after an interrupt a job that fails is not started again *)
ThrowStopsOnCancel(j) ==
    IF job[j].attempt <= JobRetries /\ ~cancelRequested
    THEN /\ job' = [job EXCEPT ![j] = [Ended(job[j], job[j].failed + 1)
                                          EXCEPT !.pc = "backoff"]]
         /\ UNCHANGED <<results, activeCount>>
    ELSE /\ results' = Append(results, [id |-> j, status |-> "error"])
         /\ job' = [job EXCEPT ![j] = Ended(job[j], job[j].failed + 1)]
         /\ activeCount' = activeCount - 1

(* processMovie threw: pRetry schedules another attempt after a back-off
   while retries are left, else the job body's catch records the error. *)
Throw(j) ==
    IF job[j].attempt <= JobRetries
    THEN /\ job' = [job EXCEPT ![j] = [Ended(job[j], job[j].failed + 1)
                                          EXCEPT !.pc = "backoff",
                                                 !.late = Retried(@)]]
         /\ UNCHANGED <<results, activeCount>>
    ELSE /\ results' = Append(results, [id |-> j, status |-> "error"])
         /\ job' = [job EXCEPT ![j] = Ended(job[j], job[j].failed + 1)]
         /\ activeCount' = activeCount - 1

(* The code after the subtitle loop: metadata is written (a failure is
   caught), then the post-processing requested is started, if any. *)
AfterSubs(j, paths) ==
    IF ~cfg.dryRun /\ cfg.burnSubs /\ paths > 0
    THEN /\ job' = [job EXCEPT ![j].pc = "burn", ![j].subsLeft = 0, ![j].subPaths = paths]
         /\ UNCHANGED <<results, activeCount>>
    ELSE IF ~cfg.dryRun /\ cfg.muxSubs /\ paths > 0
    THEN /\ job' = [job EXCEPT ![j].pc = "mux", ![j].subsLeft = 0, ![j].subPaths = paths]
         /\ UNCHANGED <<results, activeCount>>
    ELSE Finish(j, "ok")

JobFrame == UNCHANGED <<cfg, ids, queue, cancelRequested, stopping, sigints,
                        proc, exitCode, inflightAtSig, queuedAtSig, fileVars, discVars, fnVars, pmVars>>

(* await getAllVideoInfo(id) *)
GetInfo(j) ==
    /\ EventReady
    /\ job[j].pc = "info"
    /\ \/ /\ NoFault
          /\ job' = [job EXCEPT ![j].pc = "qualities"]
          /\ UNCHANGED <<results, activeCount>>
       \/ Fault /\ Throw(j)
    /\ JobFrame

(* await getTranscodedFiles(id), pickQuality, then the video download starts
   (or, in dry-run, the subtitle listing is requested). *)
GetQualities(j) ==
    /\ EventReady
    /\ job[j].pc = "qualities"
    /\ \/ Fault /\ Throw(j)
       \/ NoFault /\ Finish(j, "no-qualities")
       \/ NoFault /\ Finish(j, "no-quality-url")
       \/ /\ NoFault
          /\ job' = [job EXCEPT ![j].pc = IF cfg.dryRun THEN "subsList" ELSE "video",
                                ![j].sAttempt = IF cfg.dryRun THEN 0 ELSE 1]
          /\ UNCHANGED <<results, activeCount>>
    /\ JobFrame

(* mutant: the stream download is given one retry more than RETRY_COUNT *)
StreamRetryOnceMore(j) ==
    IF job[j].sAttempt <= cfg.retryCount + 1
    THEN /\ job' = [job EXCEPT ![j].sAttempt = job[j].sAttempt + 1]
         /\ UNCHANGED <<results, activeCount>>
    ELSE Throw(j)

(* mutant: a download that failed for good is taken for done *)
StreamFailureSwallowed(j) ==
    IF job[j].sAttempt <= cfg.retryCount
    THEN /\ job' = [job EXCEPT ![j].sAttempt = job[j].sAttempt + 1]
         /\ UNCHANGED <<results, activeCount>>
    ELSE /\ job' = [job EXCEPT ![j].pc = IF job[j].pc = "video" THEN "subsList"
                                         ELSE IF cfg.burnSubs THEN "burn"
                                         ELSE "mux",
                               ![j].sAttempt = 0]
         /\ UNCHANGED <<results, activeCount>>

(* downloadWithRetry: an attempt of streamDownloadAtomic failed.  It is
   repeated while attempts are left (retries = RETRY_COUNT), else the
   failure propagates into processMovie. *)
StreamRetry(j) ==
    IF job[j].sAttempt <= cfg.retryCount
    THEN /\ job' = [job EXCEPT ![j].sAttempt = job[j].sAttempt + 1,
                               ![j].late = Retried(@)]
         /\ UNCHANGED <<results, activeCount>>
    ELSE Throw(j)

(* one attempt of the video download ends *)
VideoAttempt(j) ==
    /\ EventReady
    /\ job[j].pc = "video"
    /\ \/ /\ NoFault
          /\ job' = [job EXCEPT ![j].pc = "subsList", ![j].sAttempt = 0,
                                ![j].vDone = TRUE]
          /\ UNCHANGED <<results, activeCount>>
       \/ Fault /\ StreamRetry(j)
    /\ JobFrame

(* await getTranslationFiles(id), filterSubtitleTracks; k tracks survive *)
GetSubs(j) ==
    /\ EventReady
    /\ job[j].pc = "subsList"
    /\ \/ Fault /\ Throw(j)
       \/ /\ NoFault
          /\ \E k \in 0..MaxSubs :
               IF k = 0 \/ cfg.dryRun
               THEN AfterSubs(j, 0)
               ELSE /\ job' = [job EXCEPT ![j].pc = "sub", ![j].subsLeft = k,
                                          ![j].subPaths = 0, ![j].sAttempt = 1,
                                          ![j].tracks = k]
                    /\ UNCHANGED <<results, activeCount>>
    /\ JobFrame

(* one attempt of the current subtitle's download ends *)
SubAttempt(j) ==
    /\ EventReady
    /\ job[j].pc = "sub"
    /\ \/ /\ NoFault
          /\ IF job[j].subsLeft = 1
             THEN AfterSubs(j, job[j].subPaths + 1)
             ELSE /\ job' = [job EXCEPT ![j].subsLeft = job[j].subsLeft - 1,
                                        ![j].subPaths = job[j].subPaths + 1,
                                        ![j].sAttempt = 1]
                  /\ UNCHANGED <<results, activeCount>>
       \/ Fault /\ StreamRetry(j)
    /\ JobFrame

(* runFfmpeg: the subprocess closes with an exit code (a non-zero code is a
   rejection the caller catches and logs), or it cannot be launched: spawn
   then emits 'error', for which runFfmpeg registers no listener, and the
   process dies of the uncaught exception. *)
LaunchError ==
    /\ Fault
    /\ proc' = "crashed"
    /\ exitCode' = 1
    /\ UNCHANGED <<job, results, activeCount>>

ToolFrame == UNCHANGED <<cfg, ids, queue, cancelRequested, stopping, sigints,
                         inflightAtSig, queuedAtSig, fileVars, discVars, fnVars, pmVars>>

(* await burnFirstSub(vpath, subPaths[0]) *)
Burn(j) ==
    /\ EventReady
    /\ job[j].pc = "burn"
    /\ \/ LaunchError
       \/ /\ \/ NoFault     \* exit code 0
             \/ Fault       \* exit code non-zero: "Burn failed" is logged
          /\ IF cfg.muxSubs
             THEN /\ job' = [job EXCEPT ![j].pc = "mux"]
                  /\ UNCHANGED <<results, activeCount>>
             ELSE Finish(j, "ok")
          /\ UNCHANGED <<proc, exitCode>>
    /\ ToolFrame

(* await muxSubs(vpath, subPaths) *)
Mux(j) ==
    /\ EventReady
    /\ job[j].pc = "mux"
    /\ \/ LaunchError
       \/ /\ \/ NoFault     \* exit code 0
             \/ Fault       \* exit code non-zero: "Mux failed" is logged
          /\ Finish(j, "ok")
          /\ UNCHANGED <<proc, exitCode>>
    /\ ToolFrame

(* pRetry's back-off timer fires: processMovie starts again from the top *)
Backoff(j) ==
    /\ EventReady
    /\ job[j].pc = "backoff"
    /\ job' = [job EXCEPT ![j].pc = "info", ![j].attempt = job[j].attempt + 1]
    /\ UNCHANGED <<results, activeCount, faults>>
    /\ JobFrame

----------------------------------------------------------------------------
(* SIGINT *)

(* installSigintGuard's onSig *)
OnSig ==
    IF stopping
    THEN UNCHANGED <<stopping, cancelRequested, inflightAtSig, queuedAtSig>>
    ELSE /\ stopping' = TRUE
         /\ cancelRequested' = TRUE
         /\ inflightAtSig' = { j \in Range(ids) : InBody(j) }
         /\ queuedAtSig' = Range(queue)

(* A SIGINT is delivered.  A process with a listener for the signal is not
   terminated by it: the listener runs, and that is all that happens.
   sigints counts 0, 1, "2 or more". *)
Sigint ==
    /\ EventReady
    /\ sigints' = IF sigints < 2 THEN sigints + 1 ELSE sigints
    /\ OnSig
    /\ UNCHANGED <<cfg, ids, queue, activeCount, job, results, proc, exitCode,
                   faults, fileVars, discVars, fnVars, pmVars>>

----------------------------------------------------------------------------
(* main after Promise.all(jobs): the summary, the exit code, and the process
   ends with nothing left on the event loop. *)

AllSettled == queue = <<>> /\ activeCount = 0

ErrorsIn(rs) == { i \in 1..Len(rs) : rs[i].status = "error" }

Summary ==
    /\ proc = "running"
    /\ AllSettled
    /\ proc' = "exited"
    /\ exitCode' = IF ErrorsIn(results) # {} THEN 1 ELSE exitCode
    /\ UNCHANGED <<cfg, ids, queue, activeCount, job, results, cancelRequested,
                   stopping, sigints, inflightAtSig, queuedAtSig, faults, fileVars, discVars, fnVars, pmVars>>

----------------------------------------------------------------------------

Next ==
    \/ StartPool
    \/ StartJob
    \/ \E j \in Range(ids) : GetInfo(j)
    \/ \E j \in Range(ids) : GetQualities(j)
    \/ \E j \in Range(ids) : VideoAttempt(j)
    \/ \E j \in Range(ids) : GetSubs(j)
    \/ \E j \in Range(ids) : SubAttempt(j)
    \/ \E j \in Range(ids) : Burn(j)
    \/ \E j \in Range(ids) : Mux(j)
    \/ \E j \in Range(ids) : Backoff(j)
    \/ Sigint
    \/ Summary

Spec == Init /\ [][Next]_vars

----------------------------------------------------------------------------
(* The pool under the assumption that every request, stream, timer and
   subprocess awaited eventually completes or fails, and that the event loop
   runs whatever is ready.  Interrupts may or may not arrive. *)

(* an event of job j is handled *)
JobStep(j) ==
    /\ j \in Range(ids)
    /\ \/ GetInfo(j)
       \/ GetQualities(j)
       \/ VideoAttempt(j)
       \/ GetSubs(j)
       \/ SubAttempt(j)
       \/ Burn(j)
       \/ Mux(j)
       \/ Backoff(j)

Fairness ==
    /\ WF_vars(StartPool)
    /\ WF_vars(StartJob)
    /\ WF_vars(Summary)
    /\ \A j \in 1..MaxIds : WF_vars(JobStep(j))

SpecLive == Init /\ [][Next]_vars /\ Fairness

----------------------------------------------------------------------------
(* The pool with one slot, where an interrupt is remembered by the jobs it
   finds in their body. *)

(* A SIGINT is delivered (as Sigint); the first one is noted in the record
   of every job that is in its body. *)
SigintSeen ==
    /\ EventReady
    /\ sigints' = IF sigints < 2 THEN sigints + 1 ELSE sigints
    /\ OnSig
    /\ job' = [ j \in DOMAIN job |->
                  IF ~stopping /\ InBody(j) THEN [job[j] EXCEPT !.late = "cut"]
                  ELSE job[j] ]
    /\ UNCHANGED <<cfg, ids, queue, activeCount, results, proc, exitCode,
                   faults, fileVars, discVars, fnVars, pmVars>>

CancelInit == Init /\ cfg.concurrency = 1

CancelNext ==
    \/ StartPool
    \/ StartJob
    \/ \E j \in Range(ids) : GetInfo(j)
    \/ \E j \in Range(ids) : GetQualities(j)
    \/ \E j \in Range(ids) : VideoAttempt(j)
    \/ \E j \in Range(ids) : GetSubs(j)
    \/ \E j \in Range(ids) : SubAttempt(j)
    \/ \E j \in Range(ids) : Burn(j)
    \/ \E j \in Range(ids) : Mux(j)
    \/ \E j \in Range(ids) : Backoff(j)
    \/ SigintSeen
    \/ Summary

SpecCancel == CancelInit /\ [][CancelNext]_vars

----------------------------------------------------------------------------
(* streamDownloadAtomic on a file system.

   Two paths are modelled, the final path and its sibling `${finalPath}.part`
   ("tmp").  A path names an inode or is absent; an open file descriptor
   keeps writing to its inode whatever happens to the paths.  The steps of
   one download are its system calls and its events, so that a second
   download of the same final path (another job, or another run) may act
   between any two of them. *)

PoolIdle ==
    /\ cfg = [concurrency |-> 1, retryCount |-> 0, dryRun |-> FALSE,
              burnSubs |-> FALSE, muxSubs |-> FALSE]
    /\ ids = <<>>
    /\ queue = <<>>
    /\ activeCount = 0
    /\ job = <<>>
    /\ results = <<>>
    /\ cancelRequested = FALSE
    /\ stopping = FALSE
    /\ sigints = 0
    /\ proc = "running"
    /\ exitCode = 0
    /\ inflightAtSig = {}
    /\ queuedAtSig = {}
    /\ faults = 0

Max(a, b) == IF a >= b THEN a ELSE b

Chunk(w, k) == [w |-> w, k |-> k]

Hole == [w |-> -1, k |-> 0]

(* The complete content of the stream download w fetches; w = 0 is the file
   an earlier run left at the final path. *)
FullOf(w) == [ k \in 1..MaxChunks |-> Chunk(w, k) ]

(* A file a prior aborted attempt left at the temp path *)
StalePart == << Chunk(0, 1) >>

(* every attempt of a download may leave a write stream behind, next to the
   attempt in progress and the two paths *)
NInodes == Cardinality(procs) * (MaxRetryCount + 2) + 2

(* write(fd, chunk) at the descriptor's own offset *)
WriteAt(c, off, x) ==
    [ i \in 1..Max(Len(c), off + 1) |->
        IF i = off + 1 THEN x ELSE IF i <= Len(c) THEN c[i] ELSE Hole ]

Referenced(d, l) ==
    {d.final, d.tmp} \cup { l[p].fd : p \in procs }
       \cup UNION { { l[p].late[k].fd : k \in 1..Len(l[p].late) } : p \in procs }

(* An inode no path and no descriptor refers to is gone. *)
Gc(ino, d, l) ==
    [ i \in DOMAIN ino |-> IF i \in Referenced(d, l) THEN ino[i] ELSE <<>> ]

FreshInode ==
    CHOOSE i \in 1..NInodes :
       /\ i \notin Referenced(dir, dl)
       /\ \A k \in 1..(i - 1) : k \in Referenced(dir, dl)

FsStep(d, ino, l) ==
    /\ dir' = d
    /\ dl' = l
    /\ inodes' = Gc(ino, d, l)
    /\ UNCHANGED <<dlOpts, procs, orchVars, discVars, fnVars, pmVars>>

(* A download: its position, the write stream of the attempt in progress
   (fd, 0 while its open is pending; off, the chunks written; got, the
   chunks received from the response) and late, the write streams of its
   failed attempts that still have an open or a write to complete. *)
NewDl ==
    [pc |-> "check", fd |-> 0, off |-> 0, got |-> 0, attempt |-> 1,
     unlinked |-> FALSE, kept |-> FALSE, late |-> <<>>]

FileInit(ps) ==
    /\ PoolIdle
    /\ procs = ps
    /\ dlOpts \in [skipExisting : BOOLEAN, overwrite : BOOLEAN,
                   retryCount : 0..MaxRetryCount]
    /\ \E hasFinal \in BOOLEAN, hasTmp \in BOOLEAN :
         /\ dir = [final |-> IF hasFinal THEN 1 ELSE 0,
                   tmp   |-> IF hasTmp THEN 2 ELSE 0]
         /\ inodes = [ i \in 1..(Cardinality(ps) * (MaxRetryCount + 2) + 2) |->
                         IF i = 1 /\ hasFinal THEN FullOf(0)
                         ELSE IF i = 2 /\ hasTmp THEN StalePart
                         ELSE <<>> ]
    /\ DiscIdle
    /\ FnIdle
    /\ PmIdle
    /\ dl = [ p \in ps |-> NewDl ]

(* the write stream of the attempt of p in progress *)
WsOf(p) == [fd |-> dl[p].fd, off |-> dl[p].off, got |-> dl[p].got]

(* a write stream nobody destroyed still has its open, or the writes of the
   chunks it holds, to complete *)
Busy(ws) == ws.fd = 0 \/ ws.off < ws.got

StillBusy(ws) == IF Busy(ws) THEN <<ws>> ELSE <<>>

RemoveAt(q, k) == [ i \in 1..(Len(q) - 1) |-> IF i < k THEN q[i] ELSE q[i + 1] ]

(* pRetry in downloadWithRetry: the attempt of p failed and left the write
   streams `left` behind.  Another attempt follows while attempts are left. *)
AttemptFailed(p, left) ==
    [dl EXCEPT ![p] = [pc |-> IF dl[p].attempt <= dlOpts.retryCount
                              THEN "check" ELSE "failed",
                       fd |-> 0, off |-> 0, got |-> 0,
                       attempt |-> IF dl[p].attempt <= dlOpts.retryCount
                                   THEN dl[p].attempt + 1 ELSE dl[p].attempt,
                       unlinked |-> dl[p].unlinked,
                       kept |-> dl[p].kept,
                       late |-> dl[p].late \o left]]

(* mutant: skip-existing is looked at before overwrite *)
CheckSkipFirst(p) ==
    /\ dl[p].pc = "check"
    /\ LET next == IF dir.final # 0 /\ dlOpts.skipExisting THEN "done"
                   ELSE IF dir.final # 0 /\ dlOpts.overwrite THEN "unlinkFinal"
                   ELSE "unlinkTmp"
       IN FsStep(dir, inodes, [dl EXCEPT ![p].pc = next])

(* if (fs.existsSync(finalPath)) { if (overwrite) ... else if (skipExisting) return; } *)
Check(p) ==
    /\ dl[p].pc = "check"
    /\ LET next == IF dir.final # 0 /\ dlOpts.overwrite THEN "unlinkFinal"
                   ELSE IF dir.final # 0 /\ dlOpts.skipExisting THEN "done"
                   ELSE "unlinkTmp"
       IN FsStep(dir, inodes, [dl EXCEPT ![p].pc = next])

(* mutant: the file at the final path is left where it is *)
UnlinkFinalSkipped(p) ==
    /\ dl[p].pc = "unlinkFinal"
    /\ FsStep(dir, inodes, [dl EXCEPT ![p].pc = "unlinkTmp"])

(* safeUnlink(finalPath): try { fs.unlinkSync(fp) } catch {}.  The file is
   removed, or unlinkSync throws, the error is swallowed and the file stays.
   unlinked remembers that this download removed the file that was at the
   final path, kept that an unlink of it failed. *)
UnlinkFinal(p) ==
    /\ dl[p].pc = "unlinkFinal"
    /\ \/ FsStep([dir EXCEPT !.final = 0], inodes,
                 [dl EXCEPT ![p].pc = "unlinkTmp",
                            ![p].unlinked = (dir.final # 0) \/ dl[p].unlinked])
       \/ /\ dir.final # 0
          /\ FsStep(dir, inodes,
                    [dl EXCEPT ![p].pc = "unlinkTmp", ![p].kept = TRUE])

(* safeUnlink(tmpPath), with the same two outcomes, then the stream request
   is issued *)
UnlinkTmp(p) ==
    /\ dl[p].pc = "unlinkTmp"
    /\ \/ FsStep([dir EXCEPT !.tmp = 0], inodes, [dl EXCEPT ![p].pc = "request"])
       \/ /\ dir.tmp # 0
          /\ FsStep(dir, inodes, [dl EXCEPT ![p].pc = "request"])

(* await http.get(url, { responseType: "stream" }): the response comes and
   fs.createWriteStream(tmpPath) submits the open of the temp path; or the
   request fails *)
Response(p) ==
    /\ dl[p].pc = "request"
    /\ \/ FsStep(dir, inodes,
                 [dl EXCEPT ![p].pc = "open", ![p].fd = 0, ![p].off = 0,
                            ![p].got = 0])
       \/ FsStep(dir, inodes, AttemptFailed(p, <<>>))

(* the path fs.createWriteStream is given *)
WritePath == "tmp"

(* open(path, "w"): a file there is truncated, else one is created *)
OpenedInode == IF dir[WritePath] # 0 THEN dir[WritePath] ELSE FreshInode

(* the open submitted by fs.createWriteStream(tmpPath) completes; or it
   fails, ws 'error' rejects and the write stream is destroyed *)
Open(p) ==
    /\ dl[p].pc = "open"
    /\ \/ FsStep([dir EXCEPT ![WritePath] = OpenedInode],
                 [inodes EXCEPT ![OpenedInode] = <<>>],
                 [dl EXCEPT ![p].pc = "write", ![p].fd = OpenedInode])
       \/ FsStep(dir, inodes, AttemptFailed(p, <<>>))

(* data.pipe(ws): a chunk of the response arrives and is handed to the write
   stream, which holds it until it is written *)
Data(p) ==
    /\ dl[p].pc \in {"open", "write"}
    /\ dl[p].got < MaxChunks
    /\ FsStep(dir, inodes, [dl EXCEPT ![p].got = @ + 1])

(* the write stream writes the next chunk it holds *)
WriteChunk(p) ==
    /\ dl[p].pc = "write"
    /\ dl[p].off < dl[p].got
    /\ FsStep(dir,
              [inodes EXCEPT ![dl[p].fd] =
                  WriteAt(inodes[dl[p].fd], dl[p].off, Chunk(p, dl[p].off + 1))],
              [dl EXCEPT ![p].off = dl[p].off + 1])

(* data.on("error"): reject(err).  Nothing destroys the write stream: its
   pending open and the writes of the chunks it holds complete later.
   ws.on("error") (a write failed): reject(err), the write stream is
   destroyed. *)
StreamError(p) ==
    /\ dl[p].pc \in {"open", "write"}
    /\ \/ FsStep(dir, inodes, AttemptFailed(p, StillBusy(WsOf(p))))
       \/ /\ dl[p].pc = "write"
          /\ FsStep(dir, inodes, AttemptFailed(p, <<>>))

(* the open of the write stream of a failed attempt completes: the temp
   path is created or truncated, whatever is there by now *)
LateOpen(p) ==
    \E k \in 1..Len(dl[p].late) :
       LET ws == [dl[p].late[k] EXCEPT !.fd = OpenedInode]
       IN /\ dl[p].late[k].fd = 0
          /\ FsStep([dir EXCEPT ![WritePath] = OpenedInode],
                    [inodes EXCEPT ![OpenedInode] = <<>>],
                    [dl EXCEPT ![p].late =
                        IF Busy(ws) THEN [@ EXCEPT ![k] = ws] ELSE RemoveAt(@, k)])

(* the write stream of a failed attempt writes the next chunk it holds *)
LateWrite(p) ==
    \E k \in 1..Len(dl[p].late) :
       LET old == dl[p].late[k]
           ws == [old EXCEPT !.off = @ + 1]
       IN /\ old.fd # 0
          /\ old.off < old.got
          /\ FsStep(dir,
                    [inodes EXCEPT ![old.fd] =
                        WriteAt(inodes[old.fd], old.off, Chunk(p, old.off + 1))],
                    [dl EXCEPT ![p].late =
                        IF Busy(ws) THEN [@ EXCEPT ![k] = ws] ELSE RemoveAt(@, k)])

(* ws 'finish' after the last chunk was written, then
   fs.renameSync(tmpPath, finalPath), which throws when the temp path names
   nothing. *)
FinishRename(p) ==
    /\ dl[p].pc = "write"
    /\ dl[p].got = MaxChunks
    /\ dl[p].off = MaxChunks
    /\ IF dir.tmp = 0
       THEN FsStep(dir, inodes, AttemptFailed(p, <<>>))
       ELSE FsStep([final |-> dir.tmp, tmp |-> 0], inodes,
                   [dl EXCEPT ![p].pc = "done", ![p].fd = 0, ![p].off = 0,
                              ![p].got = 0])

FileNext ==
    \/ \E p \in procs : Check(p)
    \/ \E p \in procs : UnlinkFinal(p)
    \/ \E p \in procs : UnlinkTmp(p)
    \/ \E p \in procs : Response(p)
    \/ \E p \in procs : Open(p)
    \/ \E p \in procs : Data(p)
    \/ \E p \in procs : WriteChunk(p)
    \/ \E p \in procs : StreamError(p)
    \/ \E p \in procs : LateOpen(p)
    \/ \E p \in procs : LateWrite(p)
    \/ \E p \in procs : FinishRename(p)

(* one download of the final path *)
InitAtomic == FileInit({1})

SpecAtomic == InitAtomic /\ [][FileNext]_vars

(* two downloads of the same final path at the same time, each of one
   attempt (RETRY_COUNT=0) *)
InitRace == FileInit({1, 2}) /\ dlOpts.retryCount = 0

SpecRace == InitRace /\ [][FileNext]_vars

----------------------------------------------------------------------------
(* Series discovery: expandSeriesToEpisodeIds

   A call is one run's discovery.  Its steps are the awaits of its catalog
   requests; cache hits, normalisation, the cache update and the final save
   happen inside the step that reaches them.  Only saveCache changes the
   cache file, and its write may fail, the error being swallowed; a file
   that cannot be read is to loadCache what a file that is not JSON is. *)

Langs == << "ar" >>

Levels == << 0, 1 >>

NPairs == Len(Langs) * Len(Levels)

(* the answers a catalog request may get *)
RowSeqs == UNION { [1..n -> Items] : n \in 0..MaxRows }

(* the roots and the --season values of a run *)
SeriesArgs == { <<r>> : r \in Roots } \cup { <<r, q>> : r \in Roots, q \in Roots }

SeasonArgs == { <<>>, <<1>>, <<2, 1>> }

RECURSIVE Uniq(_)
(* [...new Set(s)]: first occurrences, in order *)
Uniq(s) ==
    IF s = <<>> THEN <<>>
    ELSE LET h == Uniq(SubSeq(s, 1, Len(s) - 1))
             l == s[Len(s)]
         IN IF l \in Range(h) THEN h ELSE Append(h, l)

(* (a, b) => (a.season - b.season) || (a.episode - b.episode) *)
Cmp(a, b) == IF a.season - b.season # 0 THEN a.season - b.season
             ELSE a.episode - b.episode

RECURSIVE InsertSorted(_, _)
InsertSorted(x, s) ==
    IF s = <<>> THEN <<x>>
    ELSE IF Cmp(x, Head(s)) < 0 THEN <<x>> \o s
    ELSE <<Head(s)>> \o InsertSorted(x, Tail(s))

RECURSIVE SortItems(_)
(* Array.prototype.sort with the comparator Cmp; the sort is stable *)
SortItems(s) ==
    IF s = <<>> THEN <<>>
    ELSE InsertSorted(s[Len(s)], SortItems(SubSeq(s, 1, Len(s) - 1)))

IdsOf(s) == [ i \in 1..Len(s) |-> s[i].id ]

(* seasonFilters.map(String).includes(String(season)), true without filters *)
Want(seasonFilters, season) ==
    Len(seasonFilters) = 0 \/ season \in Range(seasonFilters)

VsEntry(it) ==
    [id |-> it.nb, season |-> it.season, episode |-> it.episodeNummer,
     rootSeries |-> it.rootSeries]

IsEpisode(it) == it.kind = "2"

HasId(e) == e.id # 0

normalizeVideoSeasonItems(items, seasonFilters) ==
    LET kept == SelectSeq(SelectSeq(items, IsEpisode),
                          LAMBDA it : Want(seasonFilters, it.season))
        mapped == [ i \in 1..Len(kept) |-> VsEntry(kept[i]) ]
    IN IdsOf(SortItems(SelectSeq(mapped, HasId)))

(* An element of the endpoint's answer: a bare id, { id } or { nb };
   0 stands for a missing field, and for the empty string as a bare value.
   The endpoint serves each item of the catalog in one of the shapes. *)
ShapeOf(nb) == CASE nb = 11 -> "bare" [] nb = 12 -> "id" [] OTHER -> "nb"

EpRow(shape, v) ==
    [id   |-> IF shape = "id" THEN v ELSE 0,
     nb   |-> IF shape = "nb" THEN v ELSE 0,
     bare |-> IF shape = "bare" THEN v ELSE 0]

(* String(e?.id ?? e?.nb ?? e) *)
EpId(e) == IF e.id # 0 THEN e.id ELSE IF e.nb # 0 THEN e.nb ELSE e.bare

IsId(x) == x # 0

normalizeEpisodeIds(list) ==
    SelectSeq([ i \in 1..Len(list) |-> EpId(list[i]) ], IsId)

(* What the cache file holds: "absent"; "invalid", text that is not JSON, or
   a file that cannot be read;
   "null", the JSON value null; "noSeries", a JSON value other than null
   without a member `series` ({}, [], 5); "mapping", an object whose member
   `series` maps roots to entries.  A file written by saveCache is a
   mapping. *)
ContentOf(f) ==
    IF ~f.present THEN "absent"
    ELSE IF "json" \in DOMAIN f THEN f.json
    ELSE "mapping"

(* loadCache(), the member `series` of the value returned, where it has one:
   { series: {} } with --no-cache and when readFileSync or JSON.parse throws *)
loadCache ==
    IF dcfg.noCache THEN NoSeries
    ELSE IF ContentOf(cacheFile) = "mapping" THEN cacheFile.series ELSE NoSeries

(* loadCache(), the kind of value returned: JSON.parse gives back whatever
   JSON value the file holds *)
Parsed ==
    IF dcfg.noCache THEN "mapping"
    ELSE IF ContentOf(cacheFile) \in {"null", "noSeries"} THEN ContentOf(cacheFile)
    ELSE "mapping"

(* a cache file that is not a mapping *)
OtherFile(json) == [present |-> TRUE, series |-> NoSeries, json |-> json]

(* try { fs.writeFileSync(CACHE_PATH, JSON.stringify(cache, null, 2)) } catch {}:
   the file holds the cache; or writeFileSync throws and the error is
   swallowed, the file being as it was (it could not be opened) or cut short
   (text that is not JSON) *)
WriteFileSync(cache) ==
    { [file |-> [present |-> TRUE, series |-> cache], saved |-> "written"],
      [file |-> cacheFile, saved |-> "failed"],
      [file |-> OtherFile("invalid"), saved |-> "failed"] }

(* mutant: the cache is written with --no-cache too *)
saveCacheAlways(cache) == WriteFileSync(cache)

(* mutant: the cache is never written *)
saveCacheNever(cache) == { [file |-> cacheFile, saved |-> "no"] }

(* saveCache(cache): the outcomes, each the cache file afterwards and
   whether the write was done *)
saveCache(cache) ==
    IF dcfg.noCache THEN { [file |-> cacheFile, saved |-> "no"] }
    ELSE WriteFileSync(cache)

(* mutant: an entry without episodes is not a hit *)
CacheHitNonEmpty(cache, sid) ==
    cache[sid].has /\ Len(cache[sid].episodes) > 0 /\ ~dcfg.noCache

(* cache.series?.[sid]?.episodes && !argv["no-cache"]; an empty array is truthy *)
CacheHit(cache, sid) == cache[sid].has /\ ~dcfg.noCache

(* mutant: the collected list is returned as it is *)
ReturnRaw(out) == out

(* return [...new Set(out)] *)
Return(out) == Uniq(out)

(* what the cache object holds for a root: no entry, an entry without
   episodes, an entry with episodes *)
EntryOf(cache, sid) ==
    IF ~cache[sid].has THEN "none"
    ELSE IF Len(cache[sid].episodes) = 0 THEN "empty" ELSE "full"

(* history of the crawl of one root: the (lang, level) pairs queried,
   whether a query failed, and the identifiers of the root's wanted episodes
   in the answers received *)
NoCrawl == [asked |-> 0, failed |-> FALSE, seen |-> {}]

(* history of one strategy of one root: its name and how many identifiers
   it yielded *)
Tried(via, eps) == [via |-> via, n |-> Len(eps)]

(* history of one root of a call: where its list came from, the list, the
   cache entry the loop found for it, the strategies queried in order, and
   the crawl *)
ListOf(sid, via, eps, entry, tried, crawl) ==
    [root |-> sid, via |-> via, eps |-> eps, entry |-> entry,
     tried |-> tried, crawl |-> crawl]

RECURSIVE Loop(_)
(* mutant: the loop over the roots ends at a root for which nothing was
   discovered *)
LoopStopAtEmpty(d) ==
    IF d.ri > Len(d.seriesIds) THEN [d EXCEPT !.pc = "return"]
    ELSE IF d.lists # <<>> /\ d.lists[Len(d.lists)].eps = <<>>
    THEN [d EXCEPT !.pc = "return"]
    ELSE LET sid == d.seriesIds[d.ri]
         IN IF CacheHit(d.cache, sid)
            THEN Loop([d EXCEPT !.out = @ \o d.cache[sid].episodes,
                                !.ri = @ + 1,
                                !.lists = Append(@, ListOf(sid, "cache",
                                                     d.cache[sid].episodes,
                                                     EntryOf(d.cache, sid),
                                                     <<>>, NoCrawl))])
            ELSE [d EXCEPT !.pc = "vs", !.reqs = @ + 1]

(* for (const sidRaw of seriesIds): roots the cache holds are taken from it;
   the first other root sends the videoSeason request.  pc "return" when the
   loop is over. *)
Loop(d) ==
    IF d.ri > Len(d.seriesIds) THEN [d EXCEPT !.pc = "return"]
    ELSE IF d.parsed = "null" THEN [d EXCEPT !.pc = "threw"]
    ELSE LET sid == d.seriesIds[d.ri]
         IN IF CacheHit(d.cache, sid)
            THEN Loop([d EXCEPT !.out = @ \o d.cache[sid].episodes,
                                !.ri = @ + 1,
                                !.lists = Append(@, ListOf(sid, "cache",
                                                     d.cache[sid].episodes,
                                                     EntryOf(d.cache, sid),
                                                     <<>>, NoCrawl))])
            ELSE [d EXCEPT !.pc = "vs", !.reqs = @ + 1]

(* The loop goes on from d; at its end saveCache(cache) and the return.  A
   TypeError (cache.series of null in the hit test, pc "threw") rejects the
   call: main's catch prints "Fatal" and the process exits with code 1. *)
Continue(d) ==
    LET e == IF d.pc = "threw" THEN d ELSE Loop(d)
    IN IF e.pc = "threw"
       THEN /\ disc' = IdleDisc
            /\ cacheFile' = cacheFile
            /\ ret' = [NoRet EXCEPT !.seriesIds = e.seriesIds,
                                    !.seasonFilters = e.seasonFilters,
                                    !.reqs = e.reqs,
                                    !.lists = e.lists,
                                    !.threw = TRUE]
       ELSE IF e.pc = "return"
       THEN \E w \in saveCache(e.cache) :
            /\ disc' = IdleDisc
            /\ cacheFile' = w.file
            /\ ret' = [seriesIds  |-> e.seriesIds,
                       seasonFilters |-> e.seasonFilters,
                       result     |-> Return(e.out),
                       repeat     |-> e.repeat,
                       prevResult |-> e.prevResult,
                       dup        |-> Len(Uniq(e.out)) < Len(e.out),
                       reqs       |-> e.reqs,
                       lists      |-> e.lists,
                       threw      |-> FALSE,
                       saved      |-> w.saved]
       ELSE /\ disc' = e
            /\ cacheFile' = cacheFile
            /\ ret' = NoRet

DiscFrame == UNCHANGED <<dcfg, orchVars, fileVars, fnVars, pmVars>>

(* out.push(...eps); cache.series[sid] = { updatedAt, episodes: [...new Set(eps)] },
   a TypeError when the value loaded has no member `series` *)
FinishRoot(eps, via, tried, crawl) ==
    LET sid == disc.seriesIds[disc.ri]
    IN Continue([disc EXCEPT !.out = @ \o eps,
                             !.pc = IF disc.parsed = "noSeries" THEN "threw" ELSE @,
                             !.cache[sid] = [has |-> TRUE, episodes |-> Uniq(eps)],
                             !.ri = @ + 1,
                             !.episodes = <<>>, !.bLeft = 0,
                             !.pair = 0, !.found = <<>>,
                             !.tried = <<>>, !.failed = FALSE, !.seen = {},
                             !.lists = Append(@, ListOf(sid, via, Uniq(eps),
                                                        EntryOf(disc.cache, sid),
                                                        Append(tried, Tried(via, eps)),
                                                        crawl))])

(* discoverEpisodesByVideoGroups: the first (lang, level) request *)
StartCrawl(tried) ==
    IF NPairs = 0 THEN FinishRoot(<<>>, "C", tried, NoCrawl)
    ELSE /\ disc' = [disc EXCEPT !.pc = "groups", !.pair = 1, !.found = <<>>,
                                 !.episodes = <<>>, !.bLeft = 0, !.reqs = @ + 1,
                                 !.tried = tried]
         /\ cacheFile' = cacheFile
         /\ ret' = NoRet

(* discoverEpisodesByEndpoint: getEpisodesBySeries returns null without a
   request when SERIES_EP_ENDPOINT is not set; else one request per --season
   value when SERIES_EP_SEASON_PARAM is set, one request otherwise. *)
StartEndpoint(tried) ==
    IF ~dcfg.endpoint THEN StartCrawl(tried)
    ELSE /\ disc' = [disc EXCEPT
                       !.pc = "ep", !.episodes = <<>>, !.reqs = @ + 1,
                       !.tried = tried,
                       !.bLeft = IF Len(disc.seasonFilters) > 0 /\ dcfg.seasonParam
                                 THEN Len(disc.seasonFilters) ELSE 1]
         /\ cacheFile' = cacheFile
         /\ ret' = NoRet

(* the call follows one that returned for the same roots with the cache in
   use and the cache file written, and loads that file *)
Repeats(sids) == ret.seriesIds = sids /\ ~dcfg.noCache /\ ret.saved = "written"

(* expandSeriesToEpisodeIds(seriesIds, seasonFilters) is called *)
DiscCall ==
    /\ disc.pc = "idle"
    /\ \E sids \in SeriesArgs, sf \in SeasonArgs :
         Continue([IdleDisc EXCEPT
                     !.seriesIds = sids, !.seasonFilters = sf,
                     !.cache = loadCache, !.parsed = Parsed, !.ri = 1,
                     !.repeat = Repeats(sids),
                     !.prevResult = IF Repeats(sids)
                                    THEN ret.result ELSE <<>>])
    /\ DiscFrame

(* mutant: the next strategy is tried whatever the one before yielded *)
NeedNextAlways(eps) == TRUE

(* if (!eps || eps.length === 0): the next strategy is tried *)
NeedNext(eps) == Len(eps) = 0

(* Strategy A has yielded viaVS (nothing when the request failed) *)
AfterVs(viaVS) ==
    IF NeedNext(viaVS)
    THEN StartEndpoint(Append(disc.tried, Tried("A", viaVS)))
    ELSE FinishRoot(viaVS, "A", disc.tried, NoCrawl)

(* the answer to getVideoSeason(sid), or its failure *)
VsResponse ==
    /\ disc.pc = "vs"
    /\ \/ \E vs \in RowSeqs :
            AfterVs(normalizeVideoSeasonItems(vs, disc.seasonFilters))
       \/ AfterVs(<<>>)
    /\ DiscFrame

(* Strategy B has yielded viaCfg (nothing when a request failed) *)
AfterEndpoint(viaCfg) ==
    IF NeedNext(viaCfg)
    THEN StartCrawl(Append(disc.tried, Tried("B", viaCfg)))
    ELSE FinishRoot(viaCfg, "B", disc.tried, NoCrawl)

(* the answer to one getEpisodesBySeries request, or its failure, which
   ends discoverEpisodesByEndpoint with nothing *)
EpResponse ==
    /\ disc.pc = "ep"
    /\ \/ \E rows \in RowSeqs :
            LET data == [ i \in 1..Len(rows) |->
                            EpRow(ShapeOf(rows[i].nb), rows[i].nb) ]
                episodes == disc.episodes \o normalizeEpisodeIds(data)
            IN IF disc.bLeft > 1
               THEN /\ disc' = [disc EXCEPT !.episodes = episodes,
                                            !.bLeft = @ - 1, !.reqs = @ + 1]
                    /\ cacheFile' = cacheFile
         /\ ret' = NoRet
               ELSE AfterEndpoint(Uniq(episodes))
       \/ AfterEndpoint(<<>>)
    /\ DiscFrame

RECURSIVE CrawlAdd(_, _, _, _)
(* the loop over the content of the groups: found.set(id, ...) for the
   episodes of the root, of a wanted season, not found before *)
CrawlAdd(found, rows, sid, seasonFilters) ==
    IF rows = <<>> THEN found
    ELSE LET c == Head(rows)
             skip == \/ c.kind # "2"
                     \/ c.rootSeries # sid
                     \/ c.nb = 0
                     \/ ~Want(seasonFilters, c.season)
                     \/ c.nb \in Range(IdsOf(found))
         IN CrawlAdd(IF skip THEN found
                     ELSE Append(found, [id |-> c.nb, season |-> c.season,
                                         episode |-> c.episodeNummer]),
                     Tail(rows), sid, seasonFilters)

(* the identifiers an answer holds of the wanted episodes of the root *)
Eligible(rows, sid, seasonFilters) ==
    { c.nb : c \in { x \in Range(rows) : /\ x.kind = "2"
                                         /\ x.rootSeries = sid
                                         /\ x.nb # 0
                                         /\ Want(seasonFilters, x.season) } }

(* mutant: a failed query empties what the crawl has found *)
CrawlFailureDrops(found) == <<>>

(* catch (e) { log.debug(...) }: the failure of one (lang, level) query is
   logged, and the loops go on with what was found *)
CrawlFailure(found) == found

(* one query of the crawl is over: the next pair is queried, or after the
   last pair the crawl's list is sorted and returned *)
CrawlStep(found, failed, seen) ==
    IF disc.pair < NPairs
    THEN /\ disc' = [disc EXCEPT !.found = found, !.pair = @ + 1,
                                 !.reqs = @ + 1, !.failed = failed,
                                 !.seen = seen]
         /\ cacheFile' = cacheFile
         /\ ret' = NoRet
    ELSE FinishRoot(IdsOf(SortItems(found)), "C", disc.tried,
                    [asked |-> disc.pair, failed |-> failed, seen |-> seen])

(* the answer to getVideoGroups(lang, level), or its failure *)
GroupsResponse ==
    /\ disc.pc = "groups"
    /\ LET sid == disc.seriesIds[disc.ri]
       IN \/ \E rows \in RowSeqs :
               CrawlStep(CrawlAdd(disc.found, rows, sid, disc.seasonFilters),
                         disc.failed,
                         disc.seen \cup Eligible(rows, sid, disc.seasonFilters))
          \/ CrawlStep(CrawlFailure(disc.found), TRUE, disc.seen)
    /\ DiscFrame

DiscNext ==
    \/ DiscCall
    \/ VsResponse
    \/ EpResponse
    \/ GroupsResponse

(* a cache file an earlier run has left: root 1 with the episode 12 *)
LeftCacheFile ==
    [present |-> TRUE,
     series |-> [NoSeries EXCEPT ![1] = [has |-> TRUE, episodes |-> <<12>>]]]

(* The runs that use the cache start without a cache file and build it; the
   runs with --no-cache start without one or with the one left. *)
DiscInit ==
    /\ PoolIdle
    /\ FileIdle
    /\ dcfg \in { c \in [endpoint : BOOLEAN, seasonParam : BOOLEAN, noCache : BOOLEAN] :
                    c.seasonParam => c.endpoint }
    /\ cacheFile \in IF dcfg.noCache THEN {NoCacheFile, LeftCacheFile}
                     ELSE {NoCacheFile}
    /\ disc = IdleDisc
    /\ ret = NoRet
    /\ FnIdle
    /\ PmIdle

SpecDisc == DiscInit /\ [][DiscNext]_vars

----------------------------------------------------------------------------
(* expandSeriesToEpisodeIds with a cache file that this program has not
   written: the runs use the cache, an endpoint is configured. *)

CacheFiles == { NoCacheFile, OtherFile("invalid"), OtherFile("null"),
                OtherFile("noSeries") }

CacheInit ==
    /\ PoolIdle
    /\ FileIdle
    /\ dcfg = [endpoint |-> TRUE, seasonParam |-> FALSE, noCache |-> FALSE]
    /\ cacheFile \in CacheFiles
    /\ disc = IdleDisc
    /\ ret = NoRet
    /\ FnIdle
    /\ PmIdle

SpecCache == CacheInit /\ [][DiscNext]_vars

----------------------------------------------------------------------------
(* main: the expansion of --from-video

   The loop of main over argv["from-video"]: one getVideoSeason request per
   starting episode, awaited in turn.  disc holds the loop (seriesIds: the
   starting episodes, out: `all`), ret what it has pushed to ids; lists
   keeps, per starting episode, what its answer yielded. *)

(* argv["from-video"]: identifiers of episodes of the catalog *)
FromVideoArgs ==
    { << c.nb >> : c \in Items } \cup { << c.nb, e.nb >> : c \in Items, e \in Items }

(* mutant: a starting episode whose listing yields nothing takes the list
   the cache file holds for its root series *)
AddExpandedOrCached(all, expanded, ep) ==
    IF Len(expanded) > 0 THEN all \o expanded
    ELSE all \o cacheFile.series[ItemOf(ep).rootSeries].episodes

(* if (expanded.length) all.push(...expanded); else a warning *)
AddExpanded(all, expanded, ep) ==
    IF Len(expanded) > 0 THEN all \o expanded ELSE all

(* the loop is entered: the first getVideoSeason(ep) is awaited *)
FromVideoCall ==
    /\ disc.pc = "idle"
    /\ ret = NoRet
    /\ \E eps \in FromVideoArgs, sf \in SeasonArgs :
         disc' = [IdleDisc EXCEPT !.pc = "fromVideo", !.seriesIds = eps,
                                  !.seasonFilters = sf, !.ri = 1, !.reqs = 1]
    /\ UNCHANGED <<cacheFile, ret>>
    /\ DiscFrame

(* one starting episode is done: the next request, or ids.push(...all) *)
FromVideoNext(expanded, failed) ==
    LET ep == disc.seriesIds[disc.ri]
        d == [disc EXCEPT !.out = AddExpanded(@, expanded, ep),
                          !.ri = @ + 1,
                          !.lists = Append(@, ListOf(ep, "A", expanded, "none",
                                                     << Tried("A", expanded) >>,
                                                     [NoCrawl EXCEPT !.failed = failed]))]
    IN IF d.ri <= Len(d.seriesIds)
       THEN /\ disc' = [d EXCEPT !.reqs = @ + 1]
            /\ ret' = ret
       ELSE /\ disc' = IdleDisc
            /\ ret' = [NoRet EXCEPT !.seriesIds = d.seriesIds,
                                    !.seasonFilters = d.seasonFilters,
                                    !.result = d.out,
                                    !.reqs = d.reqs,
                                    !.lists = d.lists]

(* the answer to getVideoSeason(ep), normalised; or its failure, caught and
   logged *)
FromVideoResponse ==
    /\ disc.pc = "fromVideo"
    /\ \/ \E vs \in RowSeqs :
            FromVideoNext(normalizeVideoSeasonItems(vs, disc.seasonFilters), FALSE)
       \/ FromVideoNext(<<>>, TRUE)
    /\ UNCHANGED cacheFile
    /\ DiscFrame

FromVideoStep ==
    \/ FromVideoCall
    \/ FromVideoResponse

(* the run starts with or without a cache file, with or without --no-cache,
   with or without a configured endpoint *)
FromVideoInit ==
    /\ PoolIdle
    /\ FileIdle
    /\ dcfg \in { c \in [endpoint : BOOLEAN, seasonParam : BOOLEAN, noCache : BOOLEAN] :
                    c.seasonParam => c.endpoint }
    /\ cacheFile \in {NoCacheFile, LeftCacheFile}
    /\ disc = IdleDisc
    /\ ret = NoRet
    /\ FnIdle
    /\ PmIdle

SpecFromVideo == FromVideoInit /\ [][FromVideoStep]_vars

----------------------------------------------------------------------------
(* Helpers of the pipeline: pickQuality

   A string the code looks into is a sequence of one-character strings; a
   string it only compares is a string. *)

Digits == {"0", "1", "2", "3", "4", "5", "6", "7", "8", "9"}

DigitVal(c) ==
    CASE c = "0" -> 0 [] c = "1" -> 1 [] c = "2" -> 2 [] c = "3" -> 3
      [] c = "4" -> 4 [] c = "5" -> 5 [] c = "6" -> 6 [] c = "7" -> 7
      [] c = "8" -> 8 [] c = "9" -> 9

RECURSIVE DigitsEnd(_, _)
(* the position after the digits that start at i *)
DigitsEnd(s, i) ==
    IF i <= Len(s) /\ s[i] \in Digits THEN DigitsEnd(s, i + 1) ELSE i

(* the white space of \s and of String.prototype.trim: those characters of
   it the texts here hold *)
WhiteSpace == {" ", "\t", "\n", "\r", "\f"}

RECURSIVE SpacesEnd(_, _)
(* the position after the white space that starts at i *)
SpacesEnd(s, i) ==
    IF i <= Len(s) /\ s[i] \in WhiteSpace THEN SpacesEnd(s, i + 1) ELSE i

RECURSIVE NumberOf(_, _, _)
(* Number() of the digits s[i], ..., s[j - 1] *)
NumberOf(s, i, j) ==
    IF j <= i THEN 0 ELSE 10 * NumberOf(s, i, j - 1) + DigitVal(s[j - 1])

(* /(\d+)\s*p/i matches at position i *)
MatchAt(s, i) ==
    /\ s[i] \in Digits
    /\ LET k == SpacesEnd(s, DigitsEnd(s, i))
       IN k <= Len(s) /\ s[k] \in {"p", "P"}

(* resNum: the number in front of the first "p" that follows digits, else -1 *)
resNum(q) ==
    LET s == q.resolution
        starts == { i \in 1..Len(s) : MatchAt(s, i) }
    IN IF starts = {} THEN -1
       ELSE LET i == CHOOSE m \in starts : \A n \in starts : m <= n
            IN NumberOf(s, i, DigitsEnd(s, i))

RECURSIVE InsertByRes(_, _, _)
InsertByRes(x, s, qs) ==
    IF s = <<>> THEN <<x>>
    ELSE IF resNum(qs[x]) - resNum(qs[Head(s)]) < 0 THEN <<x>> \o s
    ELSE <<Head(s)>> \o InsertByRes(x, Tail(s), qs)

RECURSIVE SortByRes(_, _)
(* the positions 1..n of the list, sorted by resNum; the sort is stable *)
SortByRes(n, qs) ==
    IF n = 0 THEN <<>> ELSE InsertByRes(n, SortByRes(n - 1, qs), qs)

(* mutant: the first entry of the highest resolution is taken *)
ByResolutionFirst(qs) ==
    CHOOSE i \in 1..Len(qs) :
       /\ \A j \in 1..Len(qs) : resNum(qs[j]) <= resNum(qs[i])
       /\ \A j \in 1..(i - 1) : resNum(qs[j]) < resNum(qs[i])

(* [...qualities].sort((a, b) => resNum(a) - resNum(b)).pop(), as a position *)
ByResolution(qs) == SortByRes(Len(qs), qs)[Len(qs)]

(* mutant: no entry is found by its name *)
ExactNever(qs, preferredName) == 0

(* qualities.find(q => q?.name === preferredName), as a position; 0: none *)
Exact(qs, preferredName) ==
    LET named == { i \in 1..Len(qs) : qs[i].name = preferredName }
    IN IF named = {} THEN 0 ELSE CHOOSE i \in named : \A j \in named : i <= j

(* pickQuality, as the position of the entry returned; 0 for null *)
PickIndex(qualities, preferredName) ==
    IF Len(qualities) = 0 THEN 0
    ELSE IF Exact(qualities, preferredName) # 0 THEN Exact(qualities, preferredName)
    ELSE ByResolution(qualities)

NoQuality == [name |-> "null", resolution |-> <<>>]

pickQuality(qualities, preferredName) ==
    IF PickIndex(qualities, preferredName) = 0 THEN NoQuality
    ELSE qualities[PickIndex(qualities, preferredName)]

(* the inputs pickQuality is applied to *)
QualityNames == {"mp4-1080", "mp4-480"}

PreferredNames == {"mp4-1080", "mp4-720"}

ResolutionLabels ==
    { << "2", "p" >>, << "1", "0", "p" >>, << "2", " ", "P" >>,
      << "3", "x", "1", "p" >>, << "x", "9" >>, << "2", "\t", "p" >>, << >> }

QualityLists ==
    UNION { [1..n -> [name : QualityNames, resolution : ResolutionLabels]] :
              n \in 0..MaxQualities }

FnFrame == UNCHANGED <<orchVars, fileVars, discVars, pmVars>>

CallPickQuality ==
    /\ call = NoCall
    /\ \E qs \in QualityLists, pref \in PreferredNames :
         /\ call' = [fn |-> "pickQuality", qualities |-> qs, preferredName |-> pref]
         /\ result' = [index |-> PickIndex(qs, pref), value |-> pickQuality(qs, pref)]
    /\ FnFrame

(* Helpers of the pipeline: pad2, chooseBaseTitle, buildTitle

   A field of the video info that may be missing is <<>> when it is null or
   undefined and <<v>> when it has the value v; a number is the string
   String() makes of it. *)

None == << >>

Some(v) == << v >>

RECURSIVE TrimStart(_)
TrimStart(s) ==
    IF s # <<>> /\ Head(s) \in WhiteSpace THEN TrimStart(Tail(s)) ELSE s

RECURSIVE TrimEnd(_)
TrimEnd(s) ==
    IF s # <<>> /\ s[Len(s)] \in WhiteSpace
    THEN TrimEnd(SubSeq(s, 1, Len(s) - 1)) ELSE s

(* String.prototype.trim *)
Trim(s) == TrimEnd(TrimStart(s))

(* s.padStart(2, "0") *)
PadStart2(s) ==
    IF Len(s) >= 2 THEN s ELSE IF Len(s) = 1 THEN <<"0">> \o s ELSE <<"0", "0">>

(* pad2(n): None for null *)
pad2(n) ==
    LET t == Trim(IF n = None THEN <<>> ELSE n[1])
    IN IF t # <<>> THEN Some(PadStart2(t)) ELSE None

(* info?.x_title?.trim(), falsy when the title is missing or blank *)
Trimmed(t) == IF t = None THEN <<>> ELSE Trim(t[1])

chooseBaseTitle(info) ==
    IF Trimmed(info.en_title) # <<>> THEN Trimmed(info.en_title)
    ELSE IF Trimmed(info.ar_title) # <<>> THEN Trimmed(info.ar_title)
    ELSE IF Trimmed(info.other_title) # <<>> THEN Trimmed(info.other_title)
    ELSE <<"u", "n", "t", "i", "t", "l", "e", "d">>

(* sanitize is the default export of the package sanitize-filename, which
   the program imports; a text is a sequence of characters.
   illegalRe = /[\/\?<>\\:\*\|"]/g *)
IllegalChars == {"/", "?", "<", ">", "\\", ":", "*", "|", "\""}

(* controlRe = /[\x00-\x1f\x80-\x9f]/g: those of them the texts here hold *)
ControlChars == {"\t", "\n", "\r", "\f"}

(* the characters of more than one byte in UTF-8 the texts here hold (two
   bytes each), written by their code points *)
WideChars == {"U+00E9"}

(* reservedRe = /^\.+$/ *)
IsReserved(s) == s # <<>> /\ \A i \in 1..Len(s) : s[i] = "."

(* the /i flag, on the letters of the reserved names *)
LowerCase(c) ==
    CASE c = "A" -> "a" [] c = "C" -> "c" [] c = "L" -> "l" [] c = "M" -> "m"
      [] c = "N" -> "n" [] c = "O" -> "o" [] c = "P" -> "p" [] c = "R" -> "r"
      [] c = "T" -> "t" [] c = "U" -> "u" [] c = "X" -> "x" [] OTHER -> c

DecimalDigits == {"0", "1", "2", "3", "4", "5", "6", "7", "8", "9"}

WindowsReservedNames ==
    { <<"c", "o", "n">>, <<"p", "r", "n">>, <<"a", "u", "x">>, <<"n", "u", "l">> }
    \cup { <<"c", "o", "m", d>> : d \in DecimalDigits }
    \cup { <<"l", "p", "t", d>> : d \in DecimalDigits }

(* windowsReservedRe: con, prn, aux, nul, com0..com9 or lpt0..lpt9, in either
   case, alone or followed by a dot and anything *)
IsWindowsReserved(s) ==
    LET t == [ i \in 1..Len(s) |-> LowerCase(s[i]) ]
    IN \E n \in {3, 4} :
          /\ Len(t) >= n
          /\ SubSeq(t, 1, n) \in WindowsReservedNames
          /\ (Len(t) = n \/ t[n + 1] = ".")

RECURSIVE StripTrailing(_)
(* windowsTrailingRe = /[\. ]+$/ *)
StripTrailing(s) ==
    IF s # <<>> /\ s[Len(s)] \in {".", " "}
    THEN StripTrailing(SubSeq(s, 1, Len(s) - 1)) ELSE s

(* the bytes the first j characters of s take in UTF-8 *)
Utf8Length(s, j) == j + Cardinality({ i \in 1..j : s[i] \in WideChars })

(* the file names of sanitize-filename hold 255 bytes at most *)
MaxNameBytes == 255

(* truncate(sanitized, 255) of truncate-utf8-bytes: the longest prefix of
   whole characters that takes no more than n bytes *)
truncate(s, n) ==
    LET k == CHOOSE j \in 0..Len(s) :
                /\ Utf8Length(s, j) <= n
                /\ j < Len(s) => Utf8Length(s, j + 1) > n
    IN SubSeq(s, 1, k)

(* sanitize(input) with the replacement "": the illegal and the control
   characters are removed; a name of dots only and a name reserved on
   Windows become empty; the dots and spaces at the end are removed; the
   result is cut to 255 bytes *)
sanitize(s) ==
    LET a == SelectSeq(s, LAMBDA c : c \notin IllegalChars)
        b == SelectSeq(a, LAMBDA c : c \notin ControlChars)
        c == IF IsReserved(b) THEN <<>> ELSE b
        d == IF IsWindowsReserved(c) THEN <<>> ELSE c
    IN truncate(StripTrailing(d), MaxNameBytes)

(* mutant: the kind of the item is not looked at *)
IsSeriesAlways(info) == TRUE

(* String(info?.kind || "") === "2" *)
IsSeries(info) == info.kind # None /\ info.kind[1] = <<"2">>

buildTitle(info) ==
    LET base == sanitize(chooseBaseTitle(info))
        sn == pad2(info.season)
        e == pad2(info.episodeNummer)
    IN IF IsSeries(info) /\ sn # None /\ e # None
       THEN base \o <<".", "S">> \o sn[1] \o <<"E">> \o e[1]
       ELSE base

(* the video infos buildTitle is applied to *)
LongTitle == [ i \in 1..(MaxNameBytes + 1) |-> IF i = 2 THEN "U+00E9" ELSE "x" ]

TitleValues ==
    { None, Some(<<>>), Some(<<" ">>), Some(<<"a", "/">>), Some(<<" ", "b", ".">>),
      Some(<<".", ".">>), Some(<<"C", "o", "n", ".", "a">>), Some(<<"a", "\t", "b">>),
      Some(<<"\t">>), Some(LongTitle) }

NumberValues ==
    { None, Some(<<>>), Some(<<" ">>), Some(<<"0">>), Some(<<"7", " ">>),
      Some(<<"1", "2">>), Some(<<"1", "2", "3">>), Some(<<"\t", "7">>) }

KindValues == { None, Some(<<>>), Some(<<"1">>), Some(<<"2">>) }

Infos ==
    [ en_title : TitleValues, ar_title : {None, Some(<<"c">>)},
      other_title : {None}, kind : KindValues,
      season : NumberValues, episodeNummer : NumberValues ]

CallBuildTitle ==
    /\ call = NoCall
    /\ \E info \in Infos :
         /\ call' = [fn |-> "buildTitle", info |-> info]
         /\ result' = buildTitle(info)
    /\ FnFrame

(* Helpers of the pipeline: buildNameFromTemplate

   A template and the values put into it are sequences of pieces of text; the
   text of a placeholder is one piece, and so is each character of a
   replacement pattern ($ and the character after it). *)

RECURSIVE Flatten(_)
Flatten(ss) == IF ss = <<>> THEN <<>> ELSE Head(ss) \o Flatten(Tail(ss))

(* the grave accent, written by its code point *)
Grave == "U+0060"

RECURSIVE GetSubstitution(_, _, _, _)
(* what String.prototype.replaceAll puts in the place of one match when the
   replacement is a string: in it $$ stands for $, $& for the match, $` for
   the text before the match and $' for the text after it; any other $ is
   kept (a string pattern has no groups) *)
GetSubstitution(value, matched, before, after) ==
    IF value = <<>> THEN <<>>
    ELSE IF Head(value) = "$" /\ Len(value) >= 2
                              /\ value[2] \in {"$", "&", Grave, "'"}
    THEN (CASE value[2] = "$" -> <<"$">>
            [] value[2] = "&" -> <<matched>>
            [] value[2] = Grave -> before
            [] value[2] = "'" -> after)
         \o GetSubstitution(Tail(Tail(value)), matched, before, after)
    ELSE <<Head(value)>> \o GetSubstitution(Tail(value), matched, before, after)

(* s.replaceAll(piece, value): every occurrence of piece in s is replaced,
   each by the substitution computed on s itself *)
replaceAll(s, piece, value) ==
    Flatten([ i \in 1..Len(s) |->
                IF s[i] = piece
                THEN GetSubstitution(value, piece, SubSeq(s, 1, i - 1),
                                     SubSeq(s, i + 1, Len(s)))
                ELSE <<s[i]>> ])

(* vars.season ?? "" *)
OrEmpty(x) == IF x = None THEN <<>> ELSE x[1]

buildNameFromTemplate(tpl, v) ==
    replaceAll(
      replaceAll(
        replaceAll(
          replaceAll(tpl, "{title}", v.title),
          "{quality}", v.quality),
        "{season}", OrEmpty(v.season)),
      "{episode}", OrEmpty(v.episode))

(* the templates and values buildNameFromTemplate is applied to *)
Templates ==
    { << "{title}" >>,
      << "{title}", ".", "{quality}" >>,
      << "{title}", ".", "S", "{season}", "E", "{episode}", ".", "{quality}" >>,
      << "{quality}", ".", "{title}", ".", "{title}" >> }

TemplateVars ==
    [ title   : { << "a" >>, << "{quality}" >>, << "a", "{season}" >>,
                  << "$", "&" >>, << "b", "$", "'" >>, << "$", "$", "5" >> },
      quality : { << "1080p" >>, << "{episode}" >>, << "$", Grave >> },
      season  : { None, Some(<< "01" >>), Some(<< "{episode}" >>) },
      episode : { None, Some(<< "02" >>) } ]

CallBuildName ==
    /\ call = NoCall
    /\ \E tpl \in Templates, v \in TemplateVars :
         /\ call' = [fn |-> "buildNameFromTemplate", tpl |-> tpl, vars |-> v]
         /\ result' = buildNameFromTemplate(tpl, v)
    /\ FnFrame

(* Helpers of the pipeline: subExt, filterSubtitleTracks

   A text is a sequence of pieces; a piece is one character or a run of
   characters that the function never looks into.  A field that may be
   missing is None or Some(text); Some(<<>>) is the empty string. *)

MaxTracks == 2         \* tracks in one answer of the subtitle listing

(* the lower-case form of one piece *)
LowerPiece(p) ==
    CASE p = "AR" -> "ar"
      [] p = "EN" -> "en"
      [] p = ".VTT" -> ".vtt"
      [] p = "DefaultImages/Loading.GIF" -> "defaultimages/loading.gif"
      [] p = "defaultImages/loading.gif" -> "defaultimages/loading.gif"
      [] OTHER -> p

(* String.prototype.toLowerCase *)
toLowerCase(s) == [ i \in 1..Len(s) |-> LowerPiece(s[i]) ]

(* s.includes(piece) *)
Includes(s, piece) == \E i \in 1..Len(s) : s[i] = piece

(* subExt(url) *)
subExt(url) ==
    LET u == toLowerCase(url)
    IN IF Includes(u, ".srt") THEN ".srt"
       ELSE IF Includes(u, ".vtt") THEN ".vtt"
       ELSE ".srt"

(* subExt(url).slice(1) *)
ExtOf(url) == IF subExt(url) = ".vtt" THEN "vtt" ELSE "srt"

(* /defaultImages\/loading\.gif/i.test(url) *)
IsLoadingPlaceholder(url) == Includes(toLowerCase(url), "defaultimages/loading.gif")

RECURSIVE SplitComma(_)
(* s.split(",") *)
SplitComma(s) ==
    IF ~Includes(s, ",") THEN << s >>
    ELSE LET i == CHOOSE k \in 1..Len(s) :
                      s[k] = "," /\ \A m \in 1..(k - 1) : s[m] # ","
         IN << SubSeq(s, 1, i - 1) >> \o SplitComma(SubSeq(s, i + 1, Len(s)))

(* langCsv ? new Set(langCsv.split(",").map(s => s.trim().toLowerCase())
                     .filter(Boolean)) : null *)
WantLangs(langCsv) ==
    IF langCsv = None \/ langCsv = Some(<<>>) THEN None
    ELSE Some({ x \in { toLowerCase(Trim(SplitComma(langCsv[1])[i])) :
                          i \in 1..Len(SplitComma(langCsv[1])) } : x # <<>> })

(* a || b for two fields that may be missing or empty *)
Or(a, b) == IF a = None \/ a = Some(<<>>) THEN b ELSE a

(* (t?.type || t?.name || "sub").toLowerCase() *)
LangOf(t) == toLowerCase(Or(Or(t.type, t.name), Some(<< "sub" >>))[1])

(* the two `continue` of the loop: no URL or the placeholder; a language
   that was not asked for *)
Skipped(t, wantLangs) ==
    \/ t.file = None
    \/ t.file = Some(<<>>)
    \/ IsLoadingPlaceholder(t.file[1])
    \/ wantLangs # None /\ LangOf(t) \notin wantLangs[1]

(* list.push({ url, lang, ext }); byLang.set(lang, list): byLang as the
   sequence of its entries, in the order the keys were inserted *)
PushTrack(byLang, e) ==
    IF \E i \in 1..Len(byLang) : byLang[i].lang = e.lang
    THEN [ i \in 1..Len(byLang) |->
             IF byLang[i].lang = e.lang
             THEN [byLang[i] EXCEPT !.list = Append(@, e)]
             ELSE byLang[i] ]
    ELSE Append(byLang, [lang |-> e.lang, list |-> << e >>])

RECURSIVE GroupByLang(_, _, _)
(* for (const t of tracks) { ... } *)
GroupByLang(tracks, wantLangs, byLang) ==
    IF tracks = <<>> THEN byLang
    ELSE LET t == Head(tracks)
         IN GroupByLang(Tail(tracks), wantLangs,
                IF Skipped(t, wantLangs) THEN byLang
                ELSE PushTrack(byLang, [url |-> t.file[1], lang |-> LangOf(t),
                                        ext |-> ExtOf(t.file[1])]))

(* mutant: the first track of the language, whatever its format *)
PreferredFirstOnly(list, formatPref) == << list[1] >>

(* formatPref === "both" ? list : [list.find(x => x.ext === formatPref) || list[0]] *)
Preferred(list, formatPref) ==
    IF formatPref = "both" THEN list
    ELSE LET hits == { i \in 1..Len(list) : list[i].ext = formatPref }
         IN IF hits = {} THEN << list[1] >>
            ELSE << list[CHOOSE i \in hits : \A k \in hits : i <= k] >>

RECURSIVE CollectTracks(_, _)
(* for (const [lang, list] of byLang.entries()) result.push(...) *)
CollectTracks(byLang, formatPref) ==
    IF byLang = <<>> THEN <<>>
    ELSE Preferred(Head(byLang).list, formatPref)
           \o CollectTracks(Tail(byLang), formatPref)

(* filterSubtitleTracks(tracks, langCsv, formatPref), tracks an array *)
filterSubtitleTracks(tracks, langCsv, formatPref) ==
    CollectTracks(GroupByLang(tracks, WantLangs(langCsv), <<>>), formatPref)

(* the inputs filterSubtitleTracks is applied to *)
TrackUrls ==
    { None, Some(<< "DefaultImages/Loading.GIF" >>), Some(<< "a", ".srt" >>),
      Some(<< "b", ".VTT" >>), Some(<< "c" >>) }

TrackLangs ==
    { [type |-> None, name |-> None],
      [type |-> Some(<<>>), name |-> Some(<< "EN" >>)],
      [type |-> Some(<< "ar" >>), name |-> Some(<< "EN" >>)],
      [type |-> Some(<< "AR" >>), name |-> None] }

TrackLists ==
    UNION { [1..n -> { [file |-> u, type |-> l.type, name |-> l.name] :
                         u \in TrackUrls, l \in TrackLangs }] : n \in 0..MaxTracks }

LangCsvs ==
    { None, Some(<<>>), Some(<< "ar" >>), Some(<< "ar", ",", " ", "EN", " " >>),
      Some(<< " ", "," >>) }

FormatPrefs == {"srt", "vtt", "both"}

CallFilterSubtitleTracks ==
    /\ call = NoCall
    /\ \E ts \in TrackLists, csv \in LangCsvs, pref \in FormatPrefs :
         /\ call' = [fn |-> "filterSubtitleTracks", tracks |-> ts,
                     langCsv |-> csv, formatPref |-> pref]
         /\ result' = filterSubtitleTracks(ts, csv, pref)
    /\ FnFrame

FnNext ==
    \/ CallPickQuality
    \/ CallBuildTitle
    \/ CallBuildName
    \/ CallFilterSubtitleTracks

FnInit == PoolIdle /\ FileIdle /\ DiscIdle /\ FnIdle /\ PmIdle

SpecFn == FnInit /\ [][FnNext]_vars

----------------------------------------------------------------------------
(* processMovie on a file system: one identifier, its whole-job retries

   The paths of one identifier: the video's final path and one subtitle's
   (the filter keeps one track or none), their `.part` siblings, the
   metadata file and the two outputs of the post-processing.  A path is
   "absent" or holds a file: "old" (there before the run), "new" (complete,
   written by this run) or "partial".  A step is the code between two awaits
   of processMovie; the synchronous start of streamDownloadAtomic (the test
   of the final path, the unlinks, the request) belongs to the step that
   reaches it.

   History kept with the pipeline: placed (this run renamed a download to
   the video's final path), removedAfter and againAfter (the video's final
   path was unlinked, a request for the video was issued, after that),
   streamed, listed, touched, tools (a stream request was issued, the
   subtitle listing was requested, a path was created, replaced or removed,
   the tool was started, during the run),
   toolFailed (a tool exit with a non-zero code was logged), failedAt (the
   awaits at which the environment made something fail), answer (the
   variant list was "empty", or the variant picked had "no-url"), and per
   attempt of the pipeline aStream, aSubs, aTool.  timer: the back-off
   timer of downloadWithRetry is pending.

   A download is followed handler by handler: after the request was sent
   (ws "none") the response arrives and fs.createWriteStream submits the
   open of the temp path (ws "opening"); the open completes and creates or
   truncates the file (ws "open"); the 'data' handler counts what arrived
   (downloaded, in chunks, a body having MaxChunks of them) and the chunk
   is handed to the write stream, which holds it until it is written; the
   'finish' handler resolves and the temp file is renamed; an 'error'
   handler rejects.

   The final and the temp paths of the downloads name files (dir: the
   inode at a path, 0 for none; ino: what each inode holds, chunk by
   chunk), since a descriptor keeps writing to its file whatever happens to
   the path; fs gives, for these paths, what the file there holds.  A write
   stream writes what it holds in one call when its open completes, and
   after a write what it has received meanwhile: fd is its descriptor (the
   inode, 0 before the open), sent the chunks handed to the file system,
   off those written.  Nothing destroys the write stream of an attempt that
   failed: late holds, per temp path, such streams as long as their open or
   a write of theirs is to complete. *)

PmPaths == {"video", "video.part", "sub", "sub.part", "meta", "burned", "muxed"}

Tmp(f) == IF f = "video" THEN "video.part" ELSE "sub.part"

PmTemps == {"video.part", "sub.part"}

(* the final and temp paths of the downloads *)
PmDownloads == {"video", "sub"} \cup PmTemps

(* the files the paths and the descriptors of one job can name at a time *)
PmInodes == Cardinality(PmDownloads) + MaxLate + 1

(* what a file holds, chunk by chunk: "d" a chunk of the body, "o" one of
   the file that was there before the run, "h" a hole *)
BodyOf(x) == [ k \in 1..MaxChunks |-> x ]

StatusOf(c) ==
    IF c = BodyOf("o") THEN "old" ELSE IF c = BodyOf("d") THEN "new" ELSE "partial"

(* writev(fd, chunks off + 1 .. n) at the descriptor's own offset *)
WriteBatch(c, off, n) ==
    [ i \in 1..Max(Len(c), n) |->
        IF off < i /\ i <= n THEN "d" ELSE IF i <= Len(c) THEN c[i] ELSE "h" ]

(* what refers to files, in a fixed order: the paths and the descriptor of
   the stream in progress *)
PmRefs(r) ==
    << r.dir["video"], r.dir["video.part"], r.dir["sub"], r.dir["sub.part"], r.fd >>

PmReferenced(r) == { PmRefs(r)[m] : m \in 1..Len(PmRefs(r)) }

PmFresh(r) == CHOOSE i \in 1..PmInodes : i \notin PmReferenced(r)

(* the write streams left behind that still have something to complete *)
PmLateCount(r) == Len(r.late["video.part"]) + Len(r.late["sub.part"])

(* open(p, "w"): the file at p, truncated, or a new one *)
PmOpened(r, p) == IF r.dir[p] # 0 THEN r.dir[p] ELSE PmFresh(r)

(* a file no descriptor is open on is not written any more, and an open of
   its path truncates it: of what it holds, only whether that is the old
   file, the whole body or something else is kept *)
Settled(c) == IF StatusOf(c) = "partial" THEN <<>> ELSE c

(* A file no path names is out of sight for good, and with it the write
   stream left behind whose descriptor is open on it.  Files are numbered
   in the order in which PmRefs meets them (which number a file has is of
   no consequence); fs follows the files. *)
PmSettle(r) ==
    LET refs == PmRefs(r)
        rank == [ i \in 0..PmInodes |->
                    IF i = 0 \/ \A m \in 1..Len(refs) : refs[m] # i THEN 0
                    ELSE LET n == CHOOSE m \in 1..Len(refs) :
                                     refs[m] = i /\ \A l \in 1..(m - 1) : refs[l] # i
                         IN Cardinality({ refs[m] : m \in 1..n } \ {0}) ]
        InSight(ws) == ws.fd = 0 \/ rank[ws.fd] # 0
        late == [ p \in PmTemps |-> SelectSeq(r.late[p], InSight) ]
        open == {r.fd} \cup UNION { { late[p][k].fd : k \in 1..Len(late[p]) } :
                                      p \in PmTemps }
        live == [ j \in 1..PmInodes |->
                    IF \E i \in 1..PmInodes : rank[i] = j
                    THEN LET i == CHOOSE k \in 1..PmInodes : rank[k] = j
                         IN IF i \in open THEN r.ino[i] ELSE Settled(r.ino[i])
                    ELSE <<>> ]
    IN [r EXCEPT !.ino = live,
                 !.dir = [ p \in PmDownloads |-> rank[r.dir[p]] ],
                 !.fd = rank[r.fd],
                 !.late = [ p \in PmTemps |->
                              [ k \in 1..Len(late[p]) |->
                                  [late[p][k] EXCEPT !.fd = rank[@]] ] ],
                 !.fs = [ p \in PmPaths |->
                            IF p \notin PmDownloads THEN r.fs[p]
                            ELSE IF r.dir[p] = 0 THEN "absent"
                            ELSE StatusOf(r.ino[r.dir[p]]) ]]

(* cfg, argv["dry-run"], ENV.SAVE_METADATA, ENV.RETRY_COUNT *)
PmOpts ==
    [ skipExisting : BOOLEAN, overwrite : BOOLEAN, dryRun : BOOLEAN,
      burnSubs : BOOLEAN, muxSubs : BOOLEAN, saveMetadata : BOOLEAN,
      retryCount : {MaxRetryCount} ]

(* the job body calls pRetry(() => processMovie(id, cfg)): the first attempt
   has sent the getAllVideoInfo request *)
NewPm(o, v, s) ==
    [opts |-> o, pc |-> "info", attempt |-> 1, sAttempt |-> 0, subPaths |-> 0,
     fs |-> [ p \in PmPaths |-> IF p = "video" THEN v
                                ELSE IF p = "sub" THEN s ELSE "absent" ],
     result |-> "none", faults |-> 0, failedAt |-> {}, answer |-> "none",
     placed |-> FALSE, removedAfter |-> FALSE, againAfter |-> FALSE,
     streamed |-> FALSE, listed |-> FALSE, touched |-> FALSE, tools |-> FALSE,
     toolFailed |-> FALSE,
     aStream |-> FALSE, aSubs |-> FALSE, aTool |-> FALSE, timer |-> FALSE,
     ws |-> "none", downloaded |-> 0, fd |-> 0, sent |-> 0, off |-> 0,
     dir |-> [ p \in PmDownloads |->
                 IF p = "video" /\ v # "absent" THEN 1
                 ELSE IF p = "sub" /\ s # "absent" THEN 2 ELSE 0 ],
     ino |-> [ i \in 1..PmInodes |->
                 IF (i = 1 /\ v # "absent") \/ (i = 2 /\ s # "absent")
                 THEN BodyOf("o") ELSE <<>> ],
     late |-> [ p \in PmTemps |-> <<>> ]]

(* processMovie threw: pRetry starts it again after a back-off while
   retries are left, else the job body's catch records the error *)
PmThrow(r) ==
    IF r.attempt <= JobRetries
    THEN [r EXCEPT !.pc = "backoff", !.sAttempt = 0, !.subPaths = 0]
    ELSE [r EXCEPT !.pc = "done", !.result = "error", !.sAttempt = 0,
                   !.subPaths = 0]

(* mutant: a status other than ok is thrown *)
PmReturnOkOnly(r, st) ==
    IF st = "ok" THEN [r EXCEPT !.pc = "done", !.result = st] ELSE PmThrow(r)

(* return { id, status } to the job body, which pushes it to the results *)
PmReturn(r, st) == [r EXCEPT !.pc = "done", !.result = st]

(* safeUnlink(p): try { fs.unlinkSync(p) } catch {}; the file is removed, or
   (fails) unlinkSync throws, the error is swallowed and the file stays *)
PmUnlink(r, p, fails) ==
    IF fails THEN r
    ELSE PmSettle([r EXCEPT
                     !.dir[p] = 0,
                     !.touched = @ \/ r.fs[p] # "absent",
                     !.removedAfter = @ \/ (p = "video" /\ r.placed /\ r.fs[p] # "absent")])

(* the second block of post-processing: muxSubs is started, or the pipeline
   returns ok *)
PmAfterBurn(r) ==
    IF ~r.opts.dryRun /\ r.opts.muxSubs /\ r.subPaths > 0
    THEN [r EXCEPT !.pc = "mux", !.tools = TRUE, !.aTool = TRUE]
    ELSE PmReturn(r, "ok")

(* mutant: the metadata file is written in dry-run too *)
WritesMetadataAlways(o) == o.saveMetadata

(* !argv["dry-run"] && ENV.SAVE_METADATA *)
WritesMetadata(o) == ~o.dryRun /\ o.saveMetadata

(* the code after the subtitle loop: the metadata file is written, then
   burnFirstSub is started when asked for and a subtitle was downloaded *)
PmAfterSubs(r) ==
    LET m == IF WritesMetadata(r.opts)
             THEN [r EXCEPT !.fs["meta"] = "new", !.touched = TRUE]
             ELSE r
    IN IF ~m.opts.dryRun /\ m.opts.burnSubs /\ m.subPaths > 0
       THEN [m EXCEPT !.pc = "burn", !.tools = TRUE, !.aTool = TRUE]
       ELSE PmAfterBurn(m)

(* downloadWithRetry(f) has resolved: after the video the subtitle listing
   is requested; after the subtitle its path is pushed to subPaths *)
PmAfterDownload(r, f) ==
    IF f = "video"
    THEN [r EXCEPT !.pc = "subsList", !.sAttempt = 0, !.aSubs = TRUE,
                   !.listed = TRUE]
    ELSE PmAfterSubs([r EXCEPT !.sAttempt = 0, !.subPaths = @ + 1])

(* streamDownloadAtomic, the final path exists:
   if (overwrite) safeUnlink(finalPath); else if (skipExisting) return; *)
KeepsExisting(o) == ~o.overwrite /\ o.skipExisting

(* the unlinks of one start of streamDownloadAtomic that fail *)
UnlinkFaults == SUBSET {"final", "tmp"}

(* streamDownloadAtomic(url, f) up to `await http.get`: an existing file is
   kept (return), or safeUnlink is called on it in overwrite mode;
   safeUnlink is called on the temp path and the stream request is sent *)
PmDownloadStart(r, f, fails) ==
    LET exists == r.fs[f] # "absent"
    IN IF exists /\ KeepsExisting(r.opts) THEN PmAfterDownload(r, f)
       ELSE LET u == IF exists /\ r.opts.overwrite
                     THEN PmUnlink(r, f, "final" \in fails) ELSE r
                w == PmUnlink(u, Tmp(f), "tmp" \in fails)
            IN [w EXCEPT !.pc = f, !.streamed = TRUE, !.aStream = TRUE,
                         !.againAfter = @ \/ (f = "video" /\ r.placed)]

(* the attempt of streamDownloadAtomic is over: the job has no write stream
   in progress *)
PmNoStream(r) ==
    [r EXCEPT !.ws = "none", !.downloaded = 0, !.fd = 0, !.sent = 0, !.off = 0]

(* downloadWithRetry: an attempt of streamDownloadAtomic failed.  While
   attempts are left pRetry waits for its back-off timer (minTimeout 800):
   nothing is requested and the temp file stays as the attempt left it.
   Else the failure propagates into processMovie. *)
PmStreamRetry(r, f) ==
    LET e == PmSettle(PmNoStream(r))
    IN IF e.sAttempt <= e.opts.retryCount
       THEN [e EXCEPT !.sAttempt = @ + 1, !.timer = TRUE]
       ELSE PmThrow(e)

(* the environment makes the request, stream or tool awaited fail *)
PmFault(r) == [r EXCEPT !.faults = @ + 1, !.failedAt = @ \cup {r.pc}]

PmFrame == UNCHANGED <<orchVars, fileVars, discVars, fnVars>>

(* await getAllVideoInfo(id) *)
PmGetInfo ==
    /\ pm.pc = "info"
    /\ \/ pm' = [pm EXCEPT !.pc = "qualities"]
       \/ pm.faults < MaxFaults /\ pm' = PmThrow(PmFault(pm))
    /\ PmFrame

(* await getTranscodedFiles(id): no list, no usable URL in the entry picked,
   or the video is planned (dry-run) or its download starts *)
PmGetQualities ==
    /\ pm.pc = "qualities"
    /\ \/ pm.faults < MaxFaults /\ pm' = PmThrow(PmFault(pm))
       \/ pm' = PmReturn([pm EXCEPT !.answer = "empty"], "no-qualities")
       \/ pm' = PmReturn([pm EXCEPT !.answer = "no-url"], "no-quality-url")
       \/ \E fails \in UnlinkFaults :
            pm' = IF pm.opts.dryRun
                  THEN [pm EXCEPT !.pc = "subsList", !.aSubs = TRUE,
                                  !.listed = TRUE]
                  ELSE PmDownloadStart([pm EXCEPT !.sAttempt = 1], "video", fails)
    /\ PmFrame

(* the stream of streamDownloadAtomic is in progress: the write stream was
   created and the promise is pending *)
PmStreaming == pm.pc \in {"video", "sub"} /\ ~pm.timer /\ pm.ws # "none"

(* `await http.get(url, { responseType: "stream" })` settles: the response
   has come and the promise executor runs (createWriteStream(tmpPath), which
   submits the open of the temp path, the listeners, data.pipe(ws)); or the
   request fails and nothing was written *)
PmStreamResponse ==
    /\ pm.pc \in {"video", "sub"}
    /\ ~pm.timer
    /\ pm.ws = "none"
    /\ \/ pm' = [pm EXCEPT !.ws = "opening", !.downloaded = 0]
       \/ /\ pm.faults < MaxFaults
          /\ pm' = PmStreamRetry(PmFault(pm), pm.pc)
    /\ PmFrame

(* the open of the write stream completes: the temp path is created, or
   truncated when a file is there, and the chunks held are handed to the
   file system *)
PmOpen ==
    /\ PmStreaming
    /\ pm.ws = "opening"
    /\ LET p == Tmp(pm.pc)
           i == PmOpened(pm, p)
       IN pm' = PmSettle([pm EXCEPT !.ws = "open", !.fd = i, !.dir[p] = i,
                                    !.ino[i] = <<>>, !.sent = pm.downloaded,
                                    !.touched = TRUE])
    /\ PmFrame

(* data.on("data"): downloaded += chunk.length; data.pipe(ws) hands the
   chunk to the write stream, which writes it at once when it is open and
   no write of its is in progress *)
PmStreamData ==
    /\ PmStreaming
    /\ pm.downloaded < MaxChunks
    /\ pm' = [pm EXCEPT !.downloaded = @ + 1,
                        !.sent = IF pm.ws = "open" /\ pm.sent = pm.off
                                 THEN pm.downloaded + 1 ELSE @]
    /\ PmFrame

(* a write of the write stream completes; the chunks received meanwhile are
   handed to the file system *)
PmWrite ==
    /\ PmStreaming
    /\ pm.ws = "open"
    /\ pm.off < pm.sent
    /\ pm' = PmSettle([pm EXCEPT
                         !.ino[pm.fd] = WriteBatch(@, pm.off, pm.sent),
                         !.off = pm.sent, !.sent = pm.downloaded])
    /\ PmFrame

(* data.on("error", reject): the temp file stays as the stream left it, and
   the write stream is not destroyed: its pending open and the writes of
   the chunks it holds complete later;
   ws.on("error", reject): the open or a write has failed, and the write
   stream is destroyed *)
PmStreamError ==
    /\ PmStreaming
    /\ pm.faults < MaxFaults
    /\ LET left == [fd |-> pm.fd, off |-> pm.off, sent |-> pm.sent,
                    got |-> pm.downloaded]
       IN \/ /\ Busy(left) => PmLateCount(pm) < MaxLate
             /\ pm' = PmStreamRetry(
                         [PmFault(pm) EXCEPT !.late[Tmp(pm.pc)] = @ \o StillBusy(left)],
                         pm.pc)
          \/ pm' = PmStreamRetry(PmFault(pm), pm.pc)
    /\ PmFrame

(* the open of the write stream of a failed attempt completes, whatever the
   job is doing by now: the temp path is created or truncated, whatever is
   there, and the chunks the stream holds are handed to the file system *)
PmLateOpen ==
    /\ \E p \in PmTemps :
         \E k \in 1..Len(pm.late[p]) :
            LET i == PmOpened(pm, p)
                ws == [pm.late[p][k] EXCEPT !.fd = i, !.sent = pm.late[p][k].got]
            IN /\ pm.late[p][k].fd = 0
               /\ pm' = PmSettle([pm EXCEPT
                                    !.dir[p] = i, !.ino[i] = <<>>,
                                    !.touched = TRUE,
                                    !.late[p] = IF Busy(ws)
                                                THEN [@ EXCEPT ![k] = ws]
                                                ELSE RemoveAt(@, k)])
    /\ PmFrame

(* a write of the write stream of a failed attempt completes: the chunks go
   to the file its descriptor names, wherever that file is by now *)
PmLateWrite ==
    /\ \E p \in PmTemps :
         \E k \in 1..Len(pm.late[p]) :
            LET old == pm.late[p][k]
                ws == [old EXCEPT !.off = old.sent, !.sent = old.got]
            IN /\ old.fd # 0
               /\ old.off < old.sent
               /\ pm' = PmSettle([pm EXCEPT
                                    !.ino[old.fd] = WriteBatch(@, old.off, old.sent),
                                    !.late[p] = IF Busy(ws)
                                                THEN [@ EXCEPT ![k] = ws]
                                                ELSE RemoveAt(@, k)])
    /\ PmFrame

(* ws.on("finish") after the last chunk was written: resolve(), then
   fs.renameSync(tmpPath, finalPath), which throws when the temp path names
   nothing, and the return of downloadWithRetry into processMovie *)
PmStreamFinish ==
    /\ PmStreaming
    /\ pm.ws = "open"
    /\ pm.downloaded = MaxChunks
    /\ pm.off = MaxChunks
    /\ LET f == pm.pc
       IN pm' = IF pm.dir[Tmp(f)] = 0 THEN PmStreamRetry(pm, f)
                ELSE PmAfterDownload(
                        PmSettle([PmNoStream(pm) EXCEPT
                                    !.dir[f] = pm.dir[Tmp(f)],
                                    !.dir[Tmp(f)] = 0,
                                    !.placed = @ \/ f = "video"]), f)
    /\ PmFrame

(* the back-off timer of downloadWithRetry fires: the next attempt of
   streamDownloadAtomic starts (test of the final path, unlinks, request) *)
PmStreamTimer ==
    /\ pm.pc \in {"video", "sub"}
    /\ pm.timer
    /\ \E fails \in UnlinkFaults :
         pm' = PmDownloadStart([pm EXCEPT !.timer = FALSE], pm.pc, fails)
    /\ PmFrame

(* await getTranslationFiles(id), filterSubtitleTracks: one track or none;
   the track is planned (dry-run) or its download starts *)
PmGetSubs ==
    /\ pm.pc = "subsList"
    /\ \/ pm.faults < MaxFaults /\ pm' = PmThrow(PmFault(pm))
       \/ \E track \in BOOLEAN, fails \in UnlinkFaults :
            pm' = IF track /\ ~pm.opts.dryRun
                  THEN PmDownloadStart([pm EXCEPT !.sAttempt = 1], "sub", fails)
                  ELSE PmAfterSubs(pm)
    /\ PmFrame

(* the tool's output path after a run that failed: not created, or left
   incomplete *)
FailedOutputs(r, p) == { r.fs[p], "partial" }

(* the code after a tool has ended: after the burn the mux block, after
   the mux the return *)
PmAfterTool(r, p) == IF p = "burned" THEN PmAfterBurn(r) ELSE PmReturn(r, "ok")

(* mutant: the rejection of runFfmpeg is not caught *)
PmToolFailureThrown(r, p) == PmThrow(r)

(* catch (e) { log.error(`Burn failed: ...`) } and the same for the mux:
   the failure is logged and the pipeline goes on *)
PmToolFailure(r, p) == PmAfterTool([r EXCEPT !.toolFailed = TRUE], p)

(* runFfmpeg inside try/catch: exit code 0; a non-zero exit code, which
   rejects; or the tool cannot be launched, 'error' has no listener and the
   process dies of the uncaught exception *)
PmTool(p) ==
    \/ pm' = PmAfterTool([pm EXCEPT !.fs[p] = "new", !.touched = TRUE], p)
    \/ /\ pm.faults < MaxFaults
       /\ \E c \in FailedOutputs(pm, p) :
            pm' = PmToolFailure([PmFault(pm) EXCEPT !.fs[p] = c,
                                                    !.touched = @ \/ c # pm.fs[p]], p)
    \/ /\ pm.faults < MaxFaults
       /\ pm' = [PmFault(pm) EXCEPT !.pc = "crashed"]

(* await burnFirstSub(vpath, subPaths[0]) *)
PmBurn ==
    /\ pm.pc = "burn"
    /\ PmTool("burned")
    /\ PmFrame

(* await muxSubs(vpath, subPaths) *)
PmMux ==
    /\ pm.pc = "mux"
    /\ PmTool("muxed")
    /\ PmFrame

(* pRetry's back-off timer fires: processMovie starts again from the top *)
PmBackoff ==
    /\ pm.pc = "backoff"
    /\ pm' = [pm EXCEPT !.pc = "info", !.attempt = @ + 1,
                        !.aStream = FALSE, !.aSubs = FALSE, !.aTool = FALSE]
    /\ PmFrame

PmNext ==
    \/ PmGetInfo
    \/ PmGetQualities
    \/ PmStreamResponse
    \/ PmOpen
    \/ PmStreamData
    \/ PmWrite
    \/ PmStreamError
    \/ PmStreamFinish
    \/ PmStreamTimer
    \/ PmLateOpen
    \/ PmLateWrite
    \/ PmGetSubs
    \/ PmBurn
    \/ PmMux
    \/ PmBackoff

(* the final paths before the run *)
Existing == {"absent", "old"}

PmInit ==
    /\ PoolIdle
    /\ FileIdle
    /\ DiscIdle
    /\ FnIdle
    /\ \E o \in PmOpts, v \in Existing, s \in Existing :
         pm = PmSettle(NewPm(o, v, s))

SpecJob == PmInit /\ [][PmNext]_vars

----------------------------------------------------------------------------
(* main from --series to the summary: discovery, then the pool

   One run with --series and no other identifier source, without
   interrupts: expandSeriesToEpisodeIds is awaited, its list deduplicated,
   and the jobs are created from it.  The pool runs one job at a time, with
   both post-processing steps asked for. *)

(* argv.series of the run *)
MainSeries == { s \in SeriesArgs : Len(s) = 1 \/ s[1] < s[2] }

MainConfig ==
    [concurrency |-> 1, retryCount |-> MaxRetryCount, dryRun |-> FALSE,
     burnSubs |-> TRUE, muxSubs |-> TRUE]

MainInit ==
    /\ cfg = MainConfig
    /\ ids = <<>>
    /\ queue = <<>>
    /\ activeCount = 0
    /\ job = <<>>
    /\ results = <<>>
    /\ cancelRequested = FALSE
    /\ stopping = FALSE
    /\ sigints = 0
    /\ proc = "discover"
    /\ exitCode = 0
    /\ inflightAtSig = {}
    /\ queuedAtSig = {}
    /\ faults = 0
    /\ dcfg \in { c \in [endpoint : {TRUE}, seasonParam : {FALSE}, noCache : BOOLEAN] : TRUE }
    /\ cacheFile = NoCacheFile
    /\ disc = IdleDisc
    /\ ret = NoRet
    /\ FileIdle
    /\ FnIdle
    /\ PmIdle

(* const eps = await expandSeriesToEpisodeIds(argv.series.map(String), null):
   the call *)
MainExpand ==
    /\ proc = "discover"
    /\ disc.pc = "idle"
    /\ ret = NoRet
    /\ \E sids \in MainSeries :
         Continue([IdleDisc EXCEPT !.seriesIds = sids, !.cache = loadCache,
                                   !.parsed = Parsed, !.ri = 1])
    /\ DiscFrame

(* mutant: the call is not awaited *)
DiscoveryDoneNoAwait(d, r) == d.pc # "idle"

(* the await of the call is over: the call has returned *)
DiscoveryDone(d, r) == d.pc = "idle" /\ r # NoRet

(* ids.push(...eps); ids = uniqStrings(ids): the list of the run.  The jobs
   are created from it by StartPool. *)
MainResolved ==
    /\ proc = "discover"
    /\ DiscoveryDone(disc, ret)
    /\ ids' = Uniq(ret.result)
    /\ queue' = ids'
    /\ job' = [ j \in Range(ids') |-> NewJob ]
    /\ proc' = "main"
    /\ ret' = NoRet
    /\ UNCHANGED <<cfg, activeCount, results, cancelRequested, stopping,
                   sigints, exitCode, inflightAtSig, queuedAtSig, faults,
                   dcfg, cacheFile, disc, fileVars, fnVars, pmVars>>

MainNext ==
    \/ MainExpand
    \/ VsResponse
    \/ EpResponse
    \/ GroupsResponse
    \/ MainResolved
    \/ StartPool
    \/ StartJob
    \/ \E j \in Range(ids) : GetInfo(j)
    \/ \E j \in Range(ids) : GetQualities(j)
    \/ \E j \in Range(ids) : VideoAttempt(j)
    \/ \E j \in Range(ids) : GetSubs(j)
    \/ \E j \in Range(ids) : SubAttempt(j)
    \/ \E j \in Range(ids) : Burn(j)
    \/ \E j \in Range(ids) : Mux(j)
    \/ \E j \in Range(ids) : Backoff(j)
    \/ Summary

SpecMain == MainInit /\ [][MainNext]_vars

----------------------------------------------------------------------------
(* Claims about the atomic write (SpecAtomic, SpecRace) *)

CompleteFiles == { FullOf(w) : w \in procs \cup {0} }

File(c) == [exists |-> TRUE, content |-> c]

Absent == [exists |-> FALSE, content |-> <<>>]

FinalFile == IF dir.final = 0 THEN Absent ELSE File(inodes[dir.final])

(* the write streams of p that still write: the one of the attempt in
   progress and those failed attempts left behind *)
Writers(p) ==
    { dl[p].late[k].fd : k \in 1..Len(dl[p].late) }
       \cup (IF dl[p].pc = "write" THEN {dl[p].fd} ELSE {})

(* C2: during and after a download of one final path, whatever fails, the
   final path is absent or holds a complete file; the bytes of the stream go
   to the '.part' sibling only (no write stream holds the file at the final
   path); and the final path changes only by the unlink of the overwrite
   mode or by the rename that follows the stream's error-free completion,
   which puts the complete stream there. *)
C2_FinalAbsentOrComplete ==
    /\ dir.final # 0 => inodes[dir.final] \in CompleteFiles
    /\ \A p \in procs : dir.final # 0 => dir.final \notin Writers(p)

C2_FinalChangesByRename ==
    FinalFile' # FinalFile =>
       \E p \in procs :
          \/ /\ dl[p].pc = "unlinkFinal"
             /\ dlOpts.overwrite
             /\ FinalFile' = Absent
          \/ /\ dl[p].pc = "write"
             /\ dl[p].off = MaxChunks
             /\ dl'[p].pc = "done"
             /\ FinalFile' = File(FullOf(p))

C2_AtomicWrite == []C2_FinalAbsentOrComplete /\ [][C2_FinalChangesByRename]_vars

(* a step of the download taken from the position pc (the write streams
   that failed attempts left behind take steps of their own) *)
C19_At(pc) == dl[1].pc = pc /\ dl'[1].pc # pc

(* (a) with skip-existing and without overwrite the call returns at once:
   no request, the final and the temp path as they were, nothing pending *)
C19_Skip ==
    (C19_At("check") /\ dir.final # 0 /\ dlOpts.skipExisting /\ ~dlOpts.overwrite)
       => (dl'[1].pc = "done" /\ dl'[1].late = <<>> /\ dir' = dir /\ inodes' = inodes)

(* (b) as the claim has it: with overwrite the file is removed *)
C19_OverwriteRemoves ==
    /\ (C19_At("check") /\ dir.final # 0 /\ dlOpts.overwrite)
          => (dl'[1].pc = "unlinkFinal" /\ dir' = dir)
    /\ C19_At("unlinkFinal")
          => (dl'[1].pc = "unlinkTmp" /\ dir'.final = 0)

(* (b) as the code has it: with overwrite, also with skip-existing, the
   unlink of the file is tried; the file is gone, or the unlink failed and
   the file is as it was; the download goes on either way *)
C19_OverwriteUnlinks ==
    /\ (C19_At("check") /\ dir.final # 0 /\ dlOpts.overwrite)
          => (dl'[1].pc = "unlinkFinal" /\ dir' = dir)
    /\ C19_At("unlinkFinal")
          => /\ dl'[1].pc = "unlinkTmp"
             /\ \/ dir'.final = 0 /\ dl'[1].unlinked
                \/ FinalFile' = FinalFile /\ dl'[1].kept /\ FinalFile.exists

(* (c) with neither, the download goes on with the file still there *)
C19_Replace ==
    (C19_At("check") /\ dir.final # 0 /\ ~dlOpts.overwrite /\ ~dlOpts.skipExisting)
       => (dl'[1].pc = "unlinkTmp" /\ dir' = dir /\ inodes' = inodes)

(* the download that goes on issues its request, writes to the temp path
   and ends by the rename that puts the temp file at the final path *)
C19_Download ==
    /\ C19_At("unlinkTmp") => (dl'[1].pc = "request" /\ FinalFile' = FinalFile)
    /\ (dl[1].pc # "done" /\ dl'[1].pc = "done" /\ dl[1].pc # "check")
          => /\ dl[1].pc = "write"
             /\ dir.tmp # 0
             /\ dir'.final = dir.tmp
             /\ dir'.tmp = 0

(* C19: when the final path exists as streamDownloadAtomic looks at it:
   (a) with skip-existing and without overwrite it returns at once: no
       request, the final and the temp path as they were;
   (b) with overwrite, also with skip-existing, the file is removed and the
       download goes on with its request;
   (c) with neither, the download goes on with its request, the file still
       there, and the rename at its end puts the new file in its place. *)
C19_ExistingFinal ==
    /\ [][C19_Skip]_vars
    /\ [][C19_OverwriteRemoves]_vars
    /\ [][C19_Replace]_vars
    /\ [][C19_Download]_vars

(* C19 amended: as C19 with (b) read as: with overwrite, also with
   skip-existing, safeUnlink is called on the file, which removes it unless
   the unlink fails (the error is ignored and the file stays where it is);
   the download goes on with its request either way. *)
C19_ExistingFinalUnlinkTried ==
    /\ [][C19_Skip]_vars
    /\ [][C19_OverwriteUnlinks]_vars
    /\ [][C19_Replace]_vars
    /\ [][C19_Download]_vars

(* With overwrite and skip-existing both set, the unlink of the file that
   was there failed, the download went on and its rename has put its own
   file in the place of the old one. *)
C19_Witness ==
    /\ dlOpts.overwrite /\ dlOpts.skipExisting
    /\ dl[1].kept
    /\ ~dl[1].unlinked
    /\ dl[1].pc = "done"
    /\ FinalFile = File(FullOf(1))

(* C3: when two downloads of the same final path run at the same time, under
   every interleaving of their steps a file at the final path is the
   complete content of one of the streams (or the complete earlier file). *)
C3_NoPartialFinal ==
    FinalFile.exists => FinalFile.content \in { FullOf(w) : w \in {0, 1, 2} }

----------------------------------------------------------------------------
(* Claims about series discovery (SpecDisc) *)

NoDuplicates(s) == \A i, j \in 1..Len(s) : i # j => s[i] # s[j]

(* (season, episode) of a does not come after that of b *)
SeasonEpisodeLeq(a, b) ==
    \/ a.season < b.season
    \/ a.season = b.season /\ a.episodeNummer <= b.episodeNummer

SortedBySeasonEpisode(s) ==
    \A i \in 1..(Len(s) - 1) : SeasonEpisodeLeq(ItemOf(s[i]), ItemOf(s[i + 1]))

(* expandSeriesToEpisodeIds is called with the roots sids in this step *)
CalledWith(sids) ==
    /\ disc.pc = "idle"
    /\ IF disc'.pc = "idle" THEN ret'.seriesIds = sids ELSE disc'.seriesIds = sids

(* C8: with the cache in use, a call of expandSeriesToEpisodeIds for the
   roots of the call that returned before it returns the same list, in the
   same order, as that call did, and issues no catalog request. *)
C8_Idempotent ==
    [][ (/\ ~dcfg.noCache
         /\ Len(ret.seriesIds) > 0
         /\ ~ret.threw
         /\ CalledWith(ret.seriesIds))
        => /\ disc'.pc = "idle"
           /\ ret'.reqs = 0
           /\ ret'.result = ret.result ]_vars

(* C8 amended: with the cache in use, a call of expandSeriesToEpisodeIds for
   the roots of the call before it, when that call's write of the cache
   file was done (saveCache swallows a failure of the write) and the call
   loads the file so written, returns the
   same list, in the same order, as that call did, and issues no catalog
   request. *)
C8_IdempotentOnceSaved ==
    ret.repeat =>
       /\ ret.result = ret.prevResult
       /\ ret.reqs = 0
       /\ \A i \in 1..Len(ret.lists) : ret.lists[i].via = "cache"

(* The second of two calls for the same roots has returned a list of two
   identifiers, taken from the cache the first call wrote. *)
C8_Witness ==
    /\ ret.repeat
    /\ Len(ret.result) >= 2
    /\ \A i \in 1..Len(ret.lists) : ret.lists[i].via = "cache"

(* C9: the list a call returns holds no identifier twice, whichever strategy
   produced it and however many sources reported the identifier. *)
C9_NoDuplicates == NoDuplicates(ret.result)

(* A call has returned a list after its sources reported an identifier more
   than once. *)
C9_Witness == ret.dup /\ Len(ret.result) >= 1

(* C10: the list a strategy produced for a root is sorted ascending by
   (season, episode), whichever of the three strategies it was. *)
C10_SortedWhicheverStrategy ==
    \A i \in 1..Len(ret.lists) :
       ret.lists[i].via \in {"A", "B", "C"} => SortedBySeasonEpisode(ret.lists[i].eps)

(* C11: a call made with a non-empty season filter, after any earlier calls,
   returns only identifiers of episodes whose season is in the filter, in
   (season, episode) order. *)
C11_SeasonFilterHonoured ==
    Len(ret.seasonFilters) > 0 =>
       /\ \A i \in 1..Len(ret.result) :
             ItemOf(ret.result[i]).season \in Range(ret.seasonFilters)
       /\ SortedBySeasonEpisode(ret.result)

(* C12: when the cache is not bypassed, the list of a root is taken from the
   cache, without running a strategy, exactly when the cache holds an entry
   with episodes for the root; without an entry, or with an entry without
   episodes, the strategies are run. *)
C12_HitIffNonEmptyEntry ==
    ~dcfg.noCache =>
       \A i \in 1..Len(ret.lists) :
          ret.lists[i].via = "cache" <=> ret.lists[i].entry = "full"

(* the cache file holds, under each root for which the call ran the
   strategies, the list the strategies produced for it *)
C13_Persisted ==
    \A i \in 1..Len(ret.lists) :
       ret.lists[i].via # "cache" =>
          /\ ContentOf(cacheFile) = "mapping"
          /\ cacheFile.series[ret.lists[i].root] =
                [has |-> TRUE, episodes |-> ret.lists[i].eps]

(* C13: with the cache in use, when a call returns, the cache file holds,
   under each root for which the call ran the strategies, the list the
   strategies produced for it, whichever strategy that was. *)
C13_PersistedBeforeReturn == ~dcfg.noCache => C13_Persisted

(* C13 amended: with the cache in use, a call that returns has called
   saveCache before; when the write was done, the cache file holds, under
   each root for which the call ran the strategies, the list the strategies
   produced for it, whichever strategy that was; when the write failed, the
   error was swallowed and the call has returned its list all the same. *)
C13_PersistedUnlessWriteFails ==
    (~dcfg.noCache /\ Len(ret.seriesIds) > 0 /\ ~ret.threw) =>
       /\ ret.saved \in {"written", "failed"}
       /\ ret.saved = "written" => C13_Persisted

(* A call has returned a list the configured endpoint produced, with the
   cache in use, and has written it to the cache file. *)
C13_Witness ==
    /\ ~dcfg.noCache
    /\ ret.saved = "written"
    /\ \E i \in 1..Len(ret.lists) :
          ret.lists[i].via = "B" /\ Len(ret.lists[i].eps) > 0

(* C14: a root for which all three strategies yield nothing contributes an
   empty list, and the call goes on: when it returns, every root it was given
   has been handled, in order, and what was found for the other roots is in
   the list returned. *)
C14_EmptyRootDoesNotAbort ==
    /\ Len(ret.lists) = Len(ret.seriesIds)
    /\ \A i \in 1..Len(ret.lists) :
          /\ ret.lists[i].root = ret.seriesIds[i]
          /\ Range(ret.lists[i].eps) \subseteq Range(ret.result)

(* Nothing was found for the first root of a call, by any strategy, and the
   strategies then found episodes for its second root. *)
C14_Witness ==
    /\ Len(ret.lists) = 2
    /\ ret.lists[1].via = "C" /\ ret.lists[1].eps = <<>>
    /\ ret.lists[2].via \in {"A", "B", "C"} /\ Len(ret.lists[2].eps) > 0
    /\ Len(ret.result) > 0

----------------------------------------------------------------------------
(* Claims about the helpers (SpecFn) *)

PickedQuality == call.fn = "pickQuality"

HasPreferred == \E i \in 1..Len(call.qualities) : call.qualities[i].name = call.preferredName

(* C15: when the list holds an entry whose name is the preferred name,
   pickQuality returns that entry (the first of that name), whatever its
   position and whatever the resolutions of the other entries. *)
C15_ExactNameWins ==
    (PickedQuality /\ HasPreferred) =>
       /\ result.index \in 1..Len(call.qualities)
       /\ result.value = call.qualities[result.index]
       /\ result.value.name = call.preferredName
       /\ \A j \in 1..(result.index - 1) : call.qualities[j].name # call.preferredName

(* The entry of the preferred name is the last of three, behind an entry of
   a higher resolution, and it is the one returned. *)
C15_Witness ==
    /\ PickedQuality
    /\ Len(call.qualities) = 3
    /\ call.qualities[3].name = call.preferredName
    /\ call.qualities[1].name # call.preferredName
    /\ resNum(call.qualities[1]) > resNum(call.qualities[3])
    /\ result.index = 3

(* C16: for a non-empty list without an entry of the preferred name,
   pickQuality returns an entry of the highest parsed resolution, a label
   that does not parse counting below every one that does, and the last such
   entry of the list; it returns null for the empty list only. *)
C16_HighestResolutionLast ==
    PickedQuality =>
       /\ result.index = 0 <=> Len(call.qualities) = 0
       /\ result.index = 0 => result.value = NoQuality
       /\ (~HasPreferred /\ Len(call.qualities) > 0) =>
            /\ result.value = call.qualities[result.index]
            /\ \A j \in 1..Len(call.qualities) :
                  resNum(call.qualities[j]) <= resNum(result.value)
            /\ \A j \in (result.index + 1)..Len(call.qualities) :
                  resNum(call.qualities[j]) < resNum(result.value)

(* Two entries tie at the highest resolution under different labels, a third
   label does not parse, and the later of the two is returned. *)
C16_Witness ==
    /\ PickedQuality
    /\ ~HasPreferred
    /\ Len(call.qualities) = 3
    /\ resNum(call.qualities[1]) = resNum(call.qualities[2])
    /\ call.qualities[1].resolution # call.qualities[2].resolution
    /\ resNum(call.qualities[3]) = -1
    /\ result.index = 2

BuiltTitle == call.fn = "buildTitle"

(* a field is present when it is not null and not blank *)
PresentField(x) == x # None /\ \E i \in 1..Len(x[1]) : x[1][i] \notin WhiteSpace

NonBlank(x) == SelectSeq(x[1], LAMBDA c : c \notin WhiteSpace)

(* p is t, padded with zeros in front to two characters *)
ZeroPadded(t, p) ==
    \/ Len(t) >= 2 /\ p = t
    \/ Len(t) = 1 /\ p = <<"0">> \o t

(* C17: buildTitle returns the sanitized base title followed by the
   zero-padded suffix .SxxEyy when the item's kind is series and both the
   season and the episode number are present, and the sanitized base title
   alone in every other case. *)
C17_SuffixIffSeriesEpisode ==
    BuiltTitle =>
       LET base == sanitize(chooseBaseTitle(call.info))
           series == call.info.kind = Some(<<"2">>)
       IN IF series /\ PresentField(call.info.season)
                    /\ PresentField(call.info.episodeNummer)
          THEN \E sn, e \in { PadStart2(NonBlank(x)) :
                                x \in {call.info.season, call.info.episodeNummer} } :
                  /\ ZeroPadded(NonBlank(call.info.season), sn)
                  /\ ZeroPadded(NonBlank(call.info.episodeNummer), e)
                  /\ result = base \o <<".", "S">> \o sn \o <<"E">> \o e
          ELSE result = base

(* A series episode with a one-digit season and a two-digit episode number,
   under a title that needs sanitizing: the suffix is .S07E12 *)
C17_Witness ==
    /\ BuiltTitle
    /\ call.info.kind = Some(<<"2">>)
    /\ call.info.en_title = Some(<<"a", "/">>)
    /\ call.info.season = Some(<<"7", " ">>)
    /\ call.info.episodeNummer = Some(<<"1", "2">>)
    /\ result = <<"a", ".", "S", "0", "7", "E", "1", "2">>

BuiltName == call.fn = "buildNameFromTemplate"

(* every placeholder of the template replaced by its value, the values left
   as they are *)
LiteralSubstitution(tpl, v) ==
    Flatten([ i \in 1..Len(tpl) |->
                CASE tpl[i] = "{title}"   -> v.title
                  [] tpl[i] = "{quality}" -> v.quality
                  [] tpl[i] = "{season}"  -> IF v.season = None THEN <<>> ELSE v.season[1]
                  [] tpl[i] = "{episode}" -> IF v.episode = None THEN <<>> ELSE v.episode[1]
                  [] OTHER -> << tpl[i] >> ])

(* C18: buildNameFromTemplate replaces the placeholders {title}, {quality},
   {season}, {episode} of the template by their values, a missing season or
   episode by the empty string, and leaves placeholder text inside a value
   as it is. *)
C18_LiteralSubstitution ==
    BuiltName => result = LiteralSubstitution(call.tpl, call.vars)

----------------------------------------------------------------------------
(* Claims about the pool, cancellation and failure isolation (Spec) *)

JobsInBody == { j \in Range(ids) : InBody(j) }

ResultStatus(j) == { results[i].status : i \in ResultsOf(j) }

(* C1: for the configured pool size N, in every reachable state at most N
   jobs are between the start and the end of their job body (metadata fetch,
   streaming, retry back-off, post-processing). *)
C1_ConcurrencyBound == Cardinality(JobsInBody) <= cfg.concurrency

(* The pool is full, one of its jobs is streaming its video, and a further
   identifier waits in the queue. *)
C1_Witness ==
    /\ Cardinality(JobsInBody) = cfg.concurrency
    /\ queue # <<>>
    /\ \E j \in JobsInBody : job[j].pc = "video"

(* after the first interrupt every job whose body had started is left to
   run (the signal neither kills the process nor skips the job), the
   summary is not reached before each of them has recorded its result, and
   no job that was still queued ever enters the pipeline (it performs no
   catalog request, no stream write and no post-processing) *)
C4_GracefulDrain ==
    /\ stopping => proc # "killed"
    /\ \A j \in inflightAtSig :
         /\ job[j].pc \in InBodyPcs \cup {"done"}
         /\ job[j].pc = "done" => Cardinality(ResultsOf(j)) = 1
         /\ proc = "exited" => job[j].pc = "done"
    /\ \A j \in queuedAtSig : job[j].pc \in {"queued", "skipped"}

(* every job that was in its body at the first interrupt has recorded its
   result *)
C4_Drained ==
    \A j \in inflightAtSig :
        job[j].pc = "done" /\ Cardinality(ResultsOf(j)) = 1

(* C4: after the first interrupt every job whose body had started is left to
   run, runs its pipeline to its end and records its result, and no job
   that was still queued ever enters the pipeline. *)
C4_DrainCompletes == []C4_GracefulDrain /\ (stopping ~> C4_Drained)

(* C5: every job that was queued but not started when the interrupt arrived
   is recorded as not run: after the run the result set holds an entry for
   each such identifier. *)
C5_SkippedRecorded ==
    proc = "exited" => \A j \in queuedAtSig : ResultsOf(j) # {}

(* C6: a second interrupt, received while the drain started by the first is
   still in progress, terminates the process without waiting for the jobs
   in flight. *)
C6_SecondSigintTerminates ==
    [][ (stopping /\ sigints' > sigints /\ activeCount > 0) => proc' = "killed" ]_vars

(* C7: a job whose pipeline failed JobRetries + 1 times is recorded once,
   with status "error" and its identifier; the step that records it leaves
   the process, the queue and every other job as they were; and a run that
   was not interrupted ends with exactly one result for every identifier. *)
C7_Recorded ==
    /\ \A j \in Range(ids) :
         job[j].failed = JobRetries + 1 =>
            /\ job[j].pc = "done"
            /\ Cardinality(ResultsOf(j)) = 1
            /\ ResultStatus(j) = {"error"}
    /\ (proc = "exited" /\ ~cancelRequested) =>
         \A i \in Range(ids) : Cardinality(ResultsOf(i)) = 1

C7_Isolated ==
    \A j \in Range(ids) :
       (job[j].failed = JobRetries /\ job'[j].failed = JobRetries + 1) =>
          /\ proc' = proc
          /\ queue' = queue
          /\ results' = Append(results, [id |-> j, status |-> "error"])
          /\ \A i \in Range(ids) \ {j} : job'[i] = job[i]

C7_FailureIsolation == []C7_Recorded /\ [][C7_Isolated]_vars

(* A run has ended in which one job exhausted its retries and another job,
   started after it or beside it, ended ok. *)
C7_Witness ==
    /\ proc = "exited"
    /\ ~cancelRequested
    /\ \E j \in Range(ids) : job[j].failed = JobRetries + 1
    /\ \E i \in Range(ids) : ResultStatus(i) = {"ok"}

(* C20: a job's pipeline is attempted at most JobRetries + 1 = 3 times and
   fails at most as often; within one attempt of the pipeline the current
   stream download is attempted at most RETRY_COUNT + 1 times; and a
   pipeline attempt that ends in failure while a stream is being downloaded
   (which is what schedules the whole-job retry, or records the error once
   the job's retries are used up) ends so only on the failure of that
   stream's attempt number RETRY_COUNT + 1. *)
C20_Bounded ==
    \A j \in Range(ids) :
       /\ job[j].attempt <= JobRetries + 1
       /\ job[j].failed <= JobRetries + 1
       /\ job[j].sAttempt <= cfg.retryCount + 1

C20_StreamExhaustedFirst ==
    \A j \in Range(ids) :
       (job[j].pc \in {"video", "sub"} /\ job'[j].failed = job[j].failed + 1) =>
          /\ job[j].sAttempt = cfg.retryCount + 1
          /\ job'[j].pc = IF job[j].attempt <= JobRetries THEN "backoff" ELSE "done"

C20_RetryBounds == []C20_Bounded /\ [][C20_StreamExhaustedFirst]_vars

(* The only job of a run waits for its first whole-job retry after exactly
   RETRY_COUNT + 1 failures, RETRY_COUNT being positive: all of them were
   attempts of one stream, a failure elsewhere ending the attempt at once. *)
C20_Witness ==
    /\ Len(ids) = 1
    /\ cfg.retryCount > 0
    /\ faults = cfg.retryCount + 1
    /\ \E j \in Range(ids) : /\ job[j].pc = "backoff"
                             /\ job[j].attempt = 1
                             /\ job[j].failed = 1

(* the process has ended: after the summary, by process.exit, or of an
   uncaught exception *)
ProcessEnded == proc \in {"exited", "aborted", "crashed"}

(* C25: once the process has ended, its exit code is non-zero exactly when
   no identifier was resolved or some result has status "error". *)
C25_ExitCodeIffError ==
    ProcessEnded =>
       (exitCode # 0 <=> (ids = <<>> \/ ErrorsIn(results) # {}))

(* C26: without identifiers the run ends in process.exit(1) before the pool
   exists: no job body has started, no request has been answered or failed,
   nothing is recorded and the summary is never reached. *)
C26_AbortBeforeJobs ==
    (ids = <<>> /\ proc # "main") =>
       /\ proc = "aborted"
       /\ exitCode = 1
       /\ activeCount = 0
       /\ results = <<>>
       /\ faults = 0
       /\ stopping = FALSE

(* A run without identifiers has ended. *)
C26_Witness == ids = <<>> /\ proc = "aborted"

----------------------------------------------------------------------------
(* Claims about the pipeline of one identifier (SpecJob) *)

(* C21: once the video of the job was moved to its final path, and with no
   failures in the run other than those of subtitle streams, the video's
   final path is never unlinked and no request for the video is issued
   again, whatever skip-existing and overwrite are. *)
C21_VideoKeptAfterSubtitleFailure ==
    (pm.pc # "none" /\ pm.placed /\ pm.failedAt \subseteq {"sub"}) =>
       /\ ~pm.removedAfter
       /\ ~pm.againAfter

(* C22: a step in which burn or mux ends with a non-zero exit code logs the
   failure and goes on with the pipeline: no retry of the job follows from
   it, the attempt number stays, and the job that ends after a tool failure
   ends with status "ok". *)
C22_Logged ==
    (pm.pc \in {"burn", "mux"} /\ pm'.faults > pm.faults /\ pm'.pc # "crashed") =>
       /\ pm'.toolFailed
       /\ pm'.attempt = pm.attempt
       /\ pm'.pc \in {"mux", "done"}
       /\ pm'.pc = "done" => pm'.result = "ok"
       /\ pm'.fs["video"] = pm.fs["video"]

C22_EndsOk ==
    (pm.pc = "done" /\ pm.toolFailed) => pm.result = "ok"

C22_ToolFailureNotFatal == []C22_EndsOk /\ [][C22_Logged]_vars

(* A job has ended after both the burn and the mux exited with a non-zero
   code. *)
C22_Witness ==
    /\ pm.pc = "done"
    /\ pm.toolFailed
    /\ pm.failedAt = {"burn", "mux"}
    /\ pm.result = "ok"

(* C23: in dry-run no stream request is issued, no path is created, replaced
   or removed (the temp paths, the metadata file and the tool outputs stay
   absent), the tool is never started, and the attempt whose subtitle
   listing is answered returns status "ok". *)
C23_NothingWritten ==
    (pm.pc # "none" /\ pm.opts.dryRun) =>
       /\ ~pm.streamed
       /\ ~pm.touched
       /\ ~pm.tools
       /\ ~pm.placed
       /\ \A p \in PmPaths \ {"video", "sub"} : pm.fs[p] = "absent"
       /\ pm.pc \notin {"video", "sub", "burn", "mux", "crashed"}

C23_StillOk ==
    (pm.pc = "subsList" /\ pm.opts.dryRun /\ pm'.faults = pm.faults) =>
       /\ pm'.pc = "done"
       /\ pm'.result = "ok"
       /\ pm'.fs = pm.fs

C23_DryRun == []C23_NothingWritten /\ [][C23_StillOk]_vars

(* A dry-run with metadata and both post-processing steps asked for has
   ended ok, with nothing at the video's path. *)
C23_Witness ==
    /\ pm.pc = "done"
    /\ pm.opts.dryRun
    /\ pm.opts.saveMetadata /\ pm.opts.burnSubs /\ pm.opts.muxSubs
    /\ pm.result = "ok"
    /\ pm.fs["video"] = "absent"

SkipStatus == {"no-qualities", "no-quality-url"}

(* the step that finds the variant list empty, or the variant picked
   without a usable URL, ends the job with that status in the attempt it is
   in: no retry, no change of any path, no request; and the job stays ended
   with that status (only write streams that earlier attempts left behind
   still act) *)
C24_EarlyReturn ==
    /\ (pm'.pc = "done" /\ pm'.result \in SkipStatus /\ pm.pc # "done") =>
          /\ pm.pc = "qualities"
          /\ pm'.attempt = pm.attempt
          /\ pm'.faults = pm.faults
          /\ pm'.fs = pm.fs
          /\ pm'.streamed = pm.streamed
          /\ pm'.listed = pm.listed
          /\ pm'.tools = pm.tools
    /\ (pm.pc = "done" /\ pm.result \in SkipStatus) =>
          /\ pm'.pc = "done"
          /\ pm'.result = pm.result
          /\ pm'.attempt = pm.attempt
          /\ pm'.faults = pm.faults
          /\ pm'.streamed = pm.streamed
          /\ pm'.listed = pm.listed
          /\ pm'.tools = pm.tools

(* the statuses are those of the two findings, and the job that ends with
   one of them has issued no stream request, requested no subtitle listing
   and started no tool *)
C24_StatusOfJob ==
    pm.pc # "none" =>
       /\ pm.answer = "empty" <=> pm.result = "no-qualities"
       /\ pm.answer = "no-url" <=> pm.result = "no-quality-url"
       /\ pm.result \in SkipStatus =>
             /\ pm.pc = "done"
             /\ ~pm.streamed
             /\ ~pm.listed
             /\ ~pm.tools

(* the same of the attempt of the pipeline that ends the job *)
C24_StatusOfAttempt ==
    pm.pc # "none" =>
       /\ pm.answer = "empty" <=> pm.result = "no-qualities"
       /\ pm.answer = "no-url" <=> pm.result = "no-quality-url"
       /\ pm.result \in SkipStatus =>
             /\ pm.pc = "done"
             /\ ~pm.aStream
             /\ ~pm.aSubs
             /\ ~pm.aTool

(* C24: a job whose variant list is empty ends with status "no-qualities",
   a job whose variant picked has no usable URL with "no-quality-url"; the
   finding is not retried, and the job has written no stream, requested no
   subtitle listing and started no tool. *)
C24_NoQualities == []C24_StatusOfJob /\ [][C24_EarlyReturn]_vars

(* C24 amended: as C24, with the last part said of the attempt of the
   pipeline that makes the finding: that attempt has issued no stream
   request, requested no subtitle listing and started no tool (an attempt
   of the same job before it, which threw and was retried, may have). *)
C24_NoQualitiesInAttempt == []C24_StatusOfAttempt /\ [][C24_EarlyReturn]_vars

(* A job has ended with no-qualities in its second attempt, after its
   first attempt had streamed the video and then thrown. *)
C24_Witness ==
    /\ pm.pc = "done"
    /\ pm.result = "no-qualities"
    /\ pm.attempt = 2
    /\ pm.streamed
    /\ ~pm.aStream

----------------------------------------------------------------------------
(* Claims about the cascade, the crawl and --no-cache (SpecDisc) *)

Rank(via) == CASE via = "A" -> 1 [] via = "B" -> 2 [] via = "C" -> 3

(* the strategies queried for a root, in order: the season listing first,
   then each further one in priority order after those before it yielded
   nothing, the configured endpoint only when there is one and the crawl
   only after it *)
InPriorityOrder(t) ==
    /\ \A i \in 1..Len(t) :
          /\ i = 1 => t[i].via = "A"
          /\ i > 1 => Rank(t[i - 1].via) < Rank(t[i].via)
          /\ i < Len(t) => t[i].n = 0
          /\ t[i].via = "B" => dcfg.endpoint
          /\ (t[i].via = "C" /\ dcfg.endpoint) => (i > 1 /\ t[i - 1].via = "B")

(* C27: for each root the cache does not serve, the endpoint is queried only
   after the season listing yielded nothing and the crawl only after both
   yielded nothing; a root served by the cache queries nothing; the list of
   a root comes from the last strategy queried. *)
C27_PriorityOrder ==
    /\ disc.pc = "vs" => disc.tried = <<>>
    /\ disc.pc = "ep" => disc.tried = << [via |-> "A", n |-> 0] >>
    /\ disc.pc = "groups" =>
          disc.tried = IF dcfg.endpoint
                       THEN << [via |-> "A", n |-> 0], [via |-> "B", n |-> 0] >>
                       ELSE << [via |-> "A", n |-> 0] >>
    /\ \A l \in Range(disc.lists) \cup Range(ret.lists) :
          IF l.via = "cache" THEN l.tried = <<>>
          ELSE /\ l.tried # <<>>
               /\ InPriorityOrder(l.tried)
               /\ l.tried[Len(l.tried)].via = l.via
               /\ l.tried[Len(l.tried)].n >= Len(l.eps)

(* A call has returned the list of a root for which the season listing and
   the endpoint yielded nothing and the crawl found episodes. *)
C27_Witness ==
    \E i \in 1..Len(ret.lists) :
       /\ ret.lists[i].via = "C"
       /\ Len(ret.lists[i].tried) = 3
       /\ Len(ret.lists[i].eps) > 0

(* C28: the crawl queries every (language, level) pair whether or not a
   query failed, and every identifier of a wanted episode of the root that
   an answered query held is in the crawl's list. *)
C28_CrawlBestEffort ==
    /\ disc.pc = "groups" => disc.seen \subseteq Range(IdsOf(disc.found))
    /\ \A l \in Range(disc.lists) \cup Range(ret.lists) :
          l.via = "C" =>
             /\ l.crawl.asked = NPairs
             /\ l.crawl.seen \subseteq Range(l.eps)

(* A call has returned a crawl's list with episodes in it although one of
   the crawl's queries failed. *)
C28_Witness ==
    \E i \in 1..Len(ret.lists) :
       /\ ret.lists[i].via = "C"
       /\ ret.lists[i].crawl.failed
       /\ ret.lists[i].crawl.seen # {}
       /\ Len(ret.lists[i].eps) > 0

(* C30: with --no-cache nothing of the cache file is used and the file is
   never written: no root is served by the cache, every root queries the
   strategies, and the file stays what it was. *)
C30_Bypassed ==
    dcfg.noCache =>
       \A l \in Range(disc.lists) \cup Range(ret.lists) :
          /\ l.via # "cache"
          /\ l.tried # <<>>

C30_FileUntouched == dcfg.noCache => cacheFile' = cacheFile

C30_NoCache == []C30_Bypassed /\ [][C30_FileUntouched]_vars

(* With --no-cache a call has returned, for the root the cache file has an
   entry for, a list that differs from the entry, and the file still holds
   the entry. *)
C30_Witness ==
    /\ dcfg.noCache
    /\ cacheFile = LeftCacheFile
    /\ \E i \in 1..Len(ret.lists) :
          /\ ret.lists[i].root = 1
          /\ Len(ret.lists[i].eps) > 0
          /\ ret.lists[i].eps # cacheFile.series[1].episodes

----------------------------------------------------------------------------
(* Claims about a whole run (SpecMain) *)

(* C29: the cache file is written only by the step in which the call of
   expandSeriesToEpisodeIds returns, which happens once in a run and before
   the identifier list, the pool and any job exist; from the creation of the
   jobs on, no discovery is in progress and the file does not change. *)
C29_JobsAfterDiscovery ==
    (proc # "discover") => /\ disc.pc = "idle"
                           /\ ret = NoRet

C29_WriteOnReturn ==
    cacheFile' # cacheFile =>
       /\ proc = "discover" /\ proc' = "discover"
       /\ ids = <<>> /\ job = <<>> /\ activeCount = 0
       /\ ret = NoRet /\ ret' # NoRet
       /\ disc'.pc = "idle"
       /\ ~dcfg.noCache

C29_NoCallAfterReturn ==
    (proc = "discover" /\ ret # NoRet) => (disc' = disc /\ cacheFile' = cacheFile)

C29_DiscoveryBeforeJobs ==
    /\ []C29_JobsAfterDiscovery
    /\ [][C29_WriteOnReturn]_vars
    /\ [][C29_NoCallAfterReturn]_vars

(* A job is in its body, and the cache file holds the lists of two roots. *)
C29_Witness ==
    /\ activeCount > 0
    /\ cacheFile.present
    /\ \A r \in Roots : cacheFile.series[r].has
    /\ Len(ids) > 1

----------------------------------------------------------------------------
(* Claims about the order of the jobs and of the stages of one job *)

(* C31: job bodies start in the order the identifiers were submitted: for
   identifiers i before j in the deduplicated list, the body of j has not
   started while the body of i has not (a body that returns at once on the
   cancellation test has started too). *)
C31_FirstComeFirstServed ==
    \A a, b \in 1..Len(ids) :
        (a < b /\ job[ids[b]].pc # "queued") => job[ids[a]].pc # "queued"

(* Two identifiers were submitted and the body of the second one has started
   while the first one is still in its body. *)
C31_Witness ==
    /\ Len(ids) > 1
    /\ InBody(ids[1])
    /\ job[ids[2]].pc # "queued"

(* The stages of processMovie in the order of its code. *)
StageRank(pc) ==
    CASE pc = "info" -> 1
      [] pc = "qualities" -> 2
      [] pc = "video" -> 3
      [] pc = "subsList" -> 4
      [] pc = "sub" -> 5
      [] pc = "burn" -> 6
      [] pc = "mux" -> 7
      [] OTHER -> 0

Stages == InBodyPcs \ {"backoff"}

(* Within one attempt of the pipeline a job never goes back to an earlier
   stage (it stays in a stream stage for a retry or for the next track). *)
C32_StagesInOrder ==
    [][ \A j \in Range(ids) :
          ( /\ job[j].pc \in Stages
            /\ job'[j].pc \in Stages
            /\ job'[j].attempt = job[j].attempt )
          => StageRank(job'[j].pc) >= StageRank(job[j].pc) ]_vars

(* While the post-processor of a job runs, the video download of the attempt
   has resolved and so has the download of every track that survived. *)
C32_ToolAfterDownloads ==
    \A j \in Range(ids) :
        job[j].pc \in {"burn", "mux"}
        => /\ job[j].vDone
           /\ job[j].tracks > 0
           /\ job[j].subPaths = job[j].tracks
           /\ job[j].subsLeft = 0

(* C32: within one pipeline attempt of a job the stages run in the order
   title info, variant list and quality choice, video stream, subtitle
   listing, subtitle streams, post-processing; the post-processor is invoked
   only after the video download and every surviving subtitle download of
   the attempt have completed without error. *)
C32_PipelineOrder == C32_StagesInOrder /\ []C32_ToolAfterDownloads

(* A job is in its post-processing in a later attempt, after a failure in an
   earlier one, with every surviving track downloaded. *)
C32_Witness ==
    \E j \in Range(ids) :
        /\ job[j].pc = "mux"
        /\ job[j].attempt > 1
        /\ job[j].tracks = MaxSubs
        /\ job[j].subPaths = MaxSubs

----------------------------------------------------------------------------
(* Claims about filterSubtitleTracks (SpecFn) *)

FilterCalled == call # NoCall /\ call.fn = "filterSubtitleTracks"

(* the track of the answer at position i, as the function returns it *)
TrackAt(i) ==
    LET t == call.tracks[i]
    IN [url |-> t.file[1], lang |-> LangOf(t), ext |-> ExtOf(t.file[1])]

(* the positions of the tracks that have a URL which is not the placeholder
   and, when languages were asked for, a language among them *)
Remaining ==
    { i \in 1..Len(call.tracks) :
        LET t == call.tracks[i]
        IN /\ t.file # None
           /\ t.file[1] # <<>>
           /\ ~IsLoadingPlaceholder(t.file[1])
           /\ WantLangs(call.langCsv) # None
                => LangOf(t) \in WantLangs(call.langCsv)[1] }

RemainingOf(lang) == { i \in Remaining : TrackAt(i).lang = lang }

FirstOf(S) == CHOOSE i \in S : \A k \in S : i <= k

(* the track kept for a language when one format is preferred *)
KeptOf(lang) ==
    LET pref == { i \in RemainingOf(lang) : TrackAt(i).ext = call.formatPref }
    IN TrackAt(FirstOf(IF pref # {} THEN pref ELSE RemainingOf(lang)))

C33_OnlyRemaining ==
    FilterCalled
    => \A k \in 1..Len(result) : \E i \in Remaining : result[k] = TrackAt(i)

C33_BothKeepsAll ==
    (FilterCalled /\ call.formatPref = "both")
    => /\ Len(result) = Cardinality(Remaining)
       /\ \A i \in Remaining :
            Cardinality({ k \in 1..Len(result) : result[k] = TrackAt(i) })
              = Cardinality({ m \in Remaining : TrackAt(m) = TrackAt(i) })

C33_OnePerLanguage ==
    (FilterCalled /\ call.formatPref \in {"srt", "vtt"})
    => /\ Len(result) = Cardinality({ TrackAt(i).lang : i \in Remaining })
       /\ \A i \in Remaining :
            \E k \in 1..Len(result) :
              /\ result[k] = KeptOf(TrackAt(i).lang)
              /\ \A m \in 1..Len(result) :
                   result[m].lang = TrackAt(i).lang => m = k

(* C33: filterSubtitleTracks returns no track whose URL is missing or is the
   loading placeholder, and none whose language is outside the languages
   asked for; with the preference "both" it returns every remaining track,
   with "srt" or "vtt" exactly one track per remaining language: the first
   one of the preferred format if the language has one, else the first one
   of the language. *)
C33_FilterSubtitleTracks ==
    C33_OnlyRemaining /\ C33_BothKeepsAll /\ C33_OnePerLanguage

(* Two tracks of one language were listed, the second one in the preferred
   format: it is the one returned. *)
C33_Witness ==
    /\ FilterCalled
    /\ call.formatPref = "vtt"
    /\ Remaining = {1, 2}
    /\ TrackAt(1).lang = TrackAt(2).lang
    /\ TrackAt(1).ext = "srt"
    /\ result = << TrackAt(2) >>

----------------------------------------------------------------------------
(* Claims about the results of a run and about a tool that cannot be
   launched (Spec) *)

JobStatuses == {"ok", "no-qualities", "no-quality-url", "error"}

CountOf(sts) == Cardinality({ i \in 1..Len(results) : results[i].status \in sts })

(* C34: once a run without interrupt has ended, every identifier of the list
   has exactly one result, of status ok, no-qualities, no-quality-url or
   error, so that OK + Skipped + Errors = Total = the number of identifiers. *)
C34_OneResultEach ==
    (ProcessEnded /\ sigints = 0)
    => /\ \A j \in Range(ids) :
            /\ Cardinality(ResultsOf(j)) = 1
            /\ \A i \in ResultsOf(j) : results[i].status \in JobStatuses
       /\ CountOf({"ok"}) + CountOf({"no-qualities", "no-quality-url"})
            + CountOf({"error"}) = Len(results)
       /\ Len(results) = Len(ids)

(* C38: a tool that cannot be launched is not fatal: the process goes on,
   the job ends with status ok and the run reaches the summary.  Here: no
   run ends in the uncaught exception of a launch error. *)
C38_LaunchErrorNotFatal == proc # "crashed"

----------------------------------------------------------------------------
(* Claims about overwrite (SpecAtomic) *)

(* the file an earlier run left at the final path is still there *)
PreviousFileKept == dir.final # 0 /\ inodes[dir.final] = FullOf(0)

(* In overwrite mode nothing is at the final path from the stream request
   of an attempt until its rename. *)
C35_RemovedBeforeRequest ==
    \A p \in procs :
        (dlOpts.overwrite /\ dl[p].pc \in {"request", "open", "write"})
        => dir.final = 0

(* In overwrite mode a download whose attempts have all failed leaves
   nothing at the final path. *)
C35_NotRestored ==
    \A p \in procs :
        (dlOpts.overwrite /\ dl[p].pc = "failed")
        => dir.final = 0 /\ ~PreviousFileKept

(* C35: with overwrite and a complete file at the final path,
   streamDownloadAtomic removes the file before it issues the stream
   request; if every attempt of the download fails, the final path is left
   absent and the previous file is not restored. *)
C35_OverwriteRemovesFirst == C35_RemovedBeforeRequest /\ C35_NotRestored

(* C35 amended: with overwrite and a complete file at the final path, every
   attempt of streamDownloadAtomic that finds the file calls safeUnlink on
   it before it issues its stream request.  From the request on, and after
   the last failed attempt, the final path is absent, unless every unlink
   so far has failed (the error is swallowed): then the previous file is
   still there, complete.  Once removed, the file does not come back. *)
C35_UnlinkTriedFirst ==
    \A p \in procs :
        (dlOpts.overwrite /\ dl[p].pc \in {"request", "open", "write", "failed"})
        => \/ dir.final = 0
           \/ dl[p].kept /\ ~dl[p].unlinked /\ PreviousFileKept

(* An overwriting download that removed the previous file has failed after
   its last retry. *)
C35_Witness ==
    /\ dlOpts.overwrite
    /\ dl[1].pc = "failed"
    /\ dl[1].unlinked
    /\ dl[1].attempt = MaxRetryCount + 1
    /\ dir.final = 0

----------------------------------------------------------------------------
(* Claims about jobs in flight at an interrupt (SpecCancel) *)

(* A stream attempt of a job fails while cancelRequested is set: it is
   repeated as long as RETRY_COUNT allows. *)
C36_StreamStillRetried ==
    [][ \A j \in Range(ids) :
          ( /\ cancelRequested
            /\ job[j].pc \in {"video", "sub"}
            /\ faults' > faults
            /\ job'[j] # job[j]
            /\ job[j].sAttempt <= cfg.retryCount )
          => /\ job'[j].pc = job[j].pc
             /\ job'[j].sAttempt = job[j].sAttempt + 1 ]_vars

(* An attempt of the pipeline fails while cancelRequested is set: the job
   goes to its back-off as long as an attempt is left, and the back-off
   ends in the next attempt. *)
C36_PipelineStillRetried ==
    [][ \A j \in Range(ids) :
          /\ ( /\ cancelRequested
               /\ InBody(j)
               /\ job'[j].failed > job[j].failed
               /\ job[j].attempt <= JobRetries )
             => job'[j].pc = "backoff"
          /\ ( /\ cancelRequested
               /\ job[j].pc = "backoff"
               /\ job'[j] # job[j] )
             => /\ job'[j].pc = "info"
                /\ job'[j].attempt = job[j].attempt + 1 ]_vars

(* An error is recorded only for a job whose attempts have all failed. *)
C36_ErrorOnlyWhenExhausted ==
    \A i \in 1..Len(results) :
        results[i].status = "error"
        => job[results[i].id].failed = JobRetries + 1

(* C36: cancellation is looked at only when a job body starts: a job in
   flight when the interrupt arrives keeps its retry budget, a stream or
   pipeline failure after the interrupt is retried as before it. *)
C36_InFlightKeepsRetries ==
    /\ C36_StreamStillRetried
    /\ C36_PipelineStillRetried
    /\ []C36_ErrorOnlyWhenExhausted

(* The interrupt found a job in its body; after that one of its streams
   failed and was requested again, and the job is now in a later attempt of
   its pipeline, in a second stream attempt. *)
C36_Witness ==
    \E j \in Range(ids) :
        /\ job[j].late = "retried"
        /\ j \in inflightAtSig
        /\ job[j].pc = "video"
        /\ job[j].sAttempt = 2
        /\ job[j].attempt = 2

----------------------------------------------------------------------------
(* Claims about termination (SpecLive) *)

(* C37: when every request and every tool invocation eventually completes
   or fails, a run with identifiers eventually ends in the summary, with or
   without an interrupt. *)
C37_ReachesSummary == (proc = "running") ~> (proc = "exited")

----------------------------------------------------------------------------
(* Claims about --from-video (SpecFromVideo) *)

RECURSIVE ListedBy(_)
(* what the season listings of the starting episodes yielded, in order *)
ListedBy(lists) ==
    IF lists = <<>> THEN <<>> ELSE Head(lists).eps \o ListedBy(Tail(lists))

FromVideoDone == disc.pc = "idle" /\ ret # NoRet

(* The expansion leaves the cache file as it is and does not load it. *)
C39_CacheUnused ==
    /\ cacheFile \in {NoCacheFile, LeftCacheFile}
    /\ disc.cache = NoSeries
    /\ FromVideoDone => (\A i \in 1..Len(ret.lists) : ret.lists[i].entry = "none")

(* One request per starting episode, all of them season listings; the
   identifiers pushed are those the listings yielded, so a listing that
   failed or was empty gives none. *)
C39_SeasonListingOnly ==
    FromVideoDone
    => /\ ret.reqs = Len(ret.seriesIds)
       /\ Len(ret.lists) = Len(ret.seriesIds)
       /\ \A i \in 1..Len(ret.lists) :
            /\ ret.lists[i].via = "A"
            /\ ret.lists[i].root = ret.seriesIds[i]
            /\ ret.lists[i].crawl.asked = 0
            /\ ret.lists[i].crawl.failed => ret.lists[i].eps = <<>>
       /\ ret.result = ListedBy(ret.lists)

(* C39: the expansion of a starting episode (--from-video) uses the season
   listing only: it neither reads nor writes the discovery cache and falls
   back neither to the configured endpoint nor to the crawl, so a failed or
   empty season listing contributes no identifier. *)
C39_FromVideo == C39_CacheUnused /\ C39_SeasonListingOnly

(* Two starting episodes of root 1, with a cache file that holds a list for
   root 1 and an endpoint configured: the first listing failed, the second
   one yielded an episode, which is all that was pushed. *)
C39_Witness ==
    /\ FromVideoDone
    /\ cacheFile = LeftCacheFile
    /\ dcfg.endpoint
    /\ ret.seriesIds = <<12, 11>>
    /\ ret.lists[1].crawl.failed
    /\ ret.result = <<11>>

----------------------------------------------------------------------------
(* Claims about the content of the cache file (SpecCache) *)

(* C40: whatever the cache file holds (nothing, text that is not JSON, JSON
   without a usable mapping of roots to entries), the discovery of a root
   behaves as a full cache miss: the strategies are queried and their list
   is returned, no error is raised. *)
C40_AnyContentIsMiss ==
    /\ ret.threw = FALSE
    /\ (ret # NoRet /\ ContentOf(cacheFile) # "mapping")
         => \A i \in 1..Len(ret.lists) : ret.lists[i].via # "cache"

====
